---- MODULE Spec2Model ----
(***************************************************************************)
(* A model of pathlib-ts: the lexical path engine of src/src/purepath.ts   *)
(* (parsing per flavour, the path algebra, PathParents) and the            *)
(* resolution-policy layer of src/src/path.ts (Path.relativeTo and         *)
(* Path.isRelativeTo under the policies exact, parent and auto).           *)
(*                                                                         *)
(* A JavaScript string is a sequence of one-character strings, so that     *)
(* parsing, joining and rendering are computed character by character.     *)
(* An optional value (a cache field that may be undefined) is a sequence   *)
(* of length 0 (undefined) or 1 (the value).                               *)
(***************************************************************************)
EXTENDS Integers, Sequences, FiniteSets

VARIABLES
  pc,        \* position of the modelled caller / operation
  parser,    \* the static parser of the class under test: "posix" | "win32"
  self,      \* the receiver instance of a lexical operation
  other,     \* the reference operand of a lexical operation
  segs,      \* the segments handed to the constructor / joinpath
  walkUp,    \* options.walkUp: <<>> (undefined), <<TRUE>> or <<FALSE>>
  result,    \* what the operation returned or threw
  listing,   \* PathParents: the array under construction
  current,   \* PathParents: the loop variable
  call,      \* Path.relativeTo / Path.isRelativeTo: the call in progress
  heap,      \* the PurePath instances alive, by creation order
  held,      \* the array the caller last got from parts / suffixes
  pending,   \* the auto-policy calls made, suspended or settled
  disk       \* what the filesystem holds at the paths a concrete Path touches

heapVars == <<heap, held, pending, disk>>

vars == <<pc, parser, self, other, segs, walkUp, result, listing, current, call,
          heap, held, pending, disk>>

----------------------------------------------------------------------------
(* Strings.                                                                *)

None == <<>>
Some(x) == <<x>>
IsSome(o) == Len(o) = 1

BS == "\\"
FS == "/"
DOT == "."
COLON == ":"
DOTDOT == <<".", ".">>

Upper == {"A", "B", "C"}
Lower == {"a", "b", "c"}
Letters == Upper \cup Lower

\* String.prototype.toLowerCase, one character
lowerChar(ch) ==
  CASE ch = "A" -> "a"
    [] ch = "B" -> "b"
    [] ch = "C" -> "c"
    [] OTHER -> ch

toLowerCase(s) == [i \in 1..Len(s) |-> lowerChar(s[i])]

startsWith(s, prefix) ==
  /\ Len(s) >= Len(prefix)
  /\ SubSeq(s, 1, Len(prefix)) = prefix

\* String.prototype.slice(n) with n >= 0
sliceFrom(s, n) == SubSeq(s, n + 1, Len(s))

\* String.prototype.indexOf for one character, 1-based, 0 when absent
indexOf(s, ch) ==
  IF \E i \in 1..Len(s) : s[i] = ch
    THEN CHOOSE i \in 1..Len(s) : s[i] = ch /\ \A j \in 1..(i - 1) : s[j] # ch
    ELSE 0

\* String.prototype.lastIndexOf for one character, 1-based, 0 when absent
lastIndexOf(s, ch) ==
  IF \E i \in 1..Len(s) : s[i] = ch
    THEN CHOOSE i \in 1..Len(s) : s[i] = ch /\ \A j \in (i + 1)..Len(s) : s[j] # ch
    ELSE 0

\* String.prototype.split on a one-character separator
RECURSIVE split(_, _)
split(s, ch) ==
  LET i == indexOf(s, ch) IN
  IF i = 0 THEN <<s>>
  ELSE <<SubSeq(s, 1, i - 1)>> \o split(sliceFrom(s, i), ch)

\* Array.prototype.join
RECURSIVE joinArray(_, _)
joinArray(arr, sepStr) ==
  IF Len(arr) = 0 THEN <<>>
  ELSE IF Len(arr) = 1 THEN arr[1]
  ELSE arr[1] \o sepStr \o joinArray(Tail(arr), sepStr)

\* String.prototype.replace(/x/g, y) for one character
replaceChar(s, from, to) == [i \in 1..Len(s) |-> IF s[i] = from THEN to ELSE s[i]]

\* the length of the run of characters of `set` at the start of s
RECURSIVE runLength(_, _)
runLength(s, set) ==
  IF Len(s) > 0 /\ s[1] \in set THEN 1 + runLength(Tail(s), set) ELSE 0

----------------------------------------------------------------------------
(* Flavour / parser.                                                       *)

Parsers == {"posix", "win32"}

\* nodepath.posix.sep, nodepath.win32.sep
sepOf(p) == IF p = "win32" THEN BS ELSE FS

\* a parser-independent pass-through
normalizeForParser_Identity(p, value) == value

normalizeForParser(p, value) ==
  IF p = "win32" THEN replaceChar(value, FS, BS) ELSE value

normalizeCase(p, value) ==
  IF p = "win32" THEN toLowerCase(value) ELSE value

\* remainder with every leading separator removed (the while loops of
\* parsePathString)
stripLeading(s, sep) == sliceFrom(s, runLength(s, {sep}))

\* the length of the run of characters other than ch at the start of s
RECURSIVE runUntil(_, _)
runUntil(s, ch) ==
  IF Len(s) > 0 /\ s[1] # ch THEN 1 + runUntil(Tail(s), ch) ELSE 0

\* /^\\\\([^\\]+)\\([^\\]+)(.*)$/ applied to s: whether it matches, given
\* the lengths of the runs of non-backslashes after the two leading
\* backslashes (host) and after the backslash that follows them (share)
uncMatches(s, hostLen, shareLen) ==
  /\ startsWith(s, <<BS, BS>>)
  /\ hostLen > 0
  /\ Len(s) > 2 + hostLen
  /\ shareLen > 0

uncHostLen(s) == runUntil(sliceFrom(s, 2), BS)
uncShareLen(s, hostLen) == runUntil(sliceFrom(s, 3 + hostLen), BS)

\* /^[A-Za-z]:/
driveMatch(s) == Len(s) >= 2 /\ s[1] \in Letters /\ s[2] = COLON

keepFragment(fragment) == Len(fragment) > 0 /\ fragment # <<DOT>>

\* remainder.split(sep).filter(...)
tailOf(remainder, sep) == SelectSeq(split(remainder, sep), keepFragment)

\* the UNC branch: drive \\host\share, root the one separator that follows
parseUnc(s, hostLen, shareLen) ==
  [drive |-> SubSeq(s, 1, 3 + hostLen + shareLen),
   root |-> IF startsWith(sliceFrom(s, 3 + hostLen + shareLen), <<BS>>) THEN <<BS>> ELSE <<>>,
   tail |-> tailOf(IF startsWith(sliceFrom(s, 3 + hostLen + shareLen), <<BS>>)
                     THEN sliceFrom(s, 4 + hostLen + shareLen)
                     ELSE sliceFrom(s, 3 + hostLen + shareLen), BS)]

\* the branches that strip an optional drive of driveLen characters and
\* then every leading separator
parseRooted(s, driveLen, sep) ==
  [drive |-> SubSeq(s, 1, driveLen),
   root |-> IF startsWith(sliceFrom(s, driveLen), <<sep>>) THEN <<sep>> ELSE <<>>,
   tail |-> tailOf(stripLeading(sliceFrom(s, driveLen), sep), sep)]

parseWin32(s, hostLen) ==
  IF uncMatches(s, hostLen, uncShareLen(s, hostLen))
    THEN parseUnc(s, hostLen, uncShareLen(s, hostLen))
    ELSE parseRooted(s, IF driveMatch(s) THEN 2 ELSE 0, BS)

parsePathString(p, value) ==
  IF Len(value) = 0 THEN [drive |-> <<>>, root |-> <<>>, tail |-> <<>>]
  ELSE IF p = "win32"
    THEN parseWin32(normalizeForParser(p, value), uncHostLen(normalizeForParser(p, value)))
    ELSE parseRooted(value, 0, FS)

formatPathString(p, drive, root, tail) ==
  IF Len(drive) > 0 \/ Len(root) > 0
    THEN drive \o root \o joinArray(tail, <<sepOf(p)>>)
    ELSE joinArray(tail, <<sepOf(p)>>)

\* `formatted || "."`
orDot(formatted) == IF Len(formatted) = 0 THEN <<DOT>> ELSE formatted

----------------------------------------------------------------------------
(* node:path join, as PurePath.rawPath calls it (parser.join): the         *)
(* algorithm of Node's lib/path.js (normalizeString, posix.normalize,      *)
(* posix.join, win32.normalize, win32.join), computed on components.       *)

isPathSeparator(p, ch) == IF p = "win32" THEN ch \in {FS, BS} ELSE ch = FS

\* the pieces between separators that normalizeString walks through
componentsOf(p, path) ==
  IF p = "win32" THEN split(replaceChar(path, FS, BS), BS) ELSE split(path, FS)

\* normalizeString's loop: '' and '.' are skipped, '..' removes the last
\* kept component unless there is none or it is '..', in which case it is
\* kept only when allowAboveRoot
RECURSIVE normalizeFold(_, _, _)
normalizeFold(comps, res, allowAboveRoot) ==
  IF Len(comps) = 0 THEN res
  ELSE IF Len(comps[1]) = 0 \/ comps[1] = <<DOT>>
    THEN normalizeFold(Tail(comps), res, allowAboveRoot)
  ELSE IF comps[1] # DOTDOT
    THEN normalizeFold(Tail(comps), Append(res, comps[1]), allowAboveRoot)
  ELSE IF Len(res) > 0 /\ res[Len(res)] # DOTDOT
    THEN normalizeFold(Tail(comps), SubSeq(res, 1, Len(res) - 1), allowAboveRoot)
  ELSE IF allowAboveRoot
    THEN normalizeFold(Tail(comps), Append(res, DOTDOT), allowAboveRoot)
  ELSE normalizeFold(Tail(comps), res, allowAboveRoot)

normalizeString(p, path, allowAboveRoot) ==
  joinArray(normalizeFold(componentsOf(p, path), <<>>, allowAboveRoot), <<sepOf(p)>>)

\* the end of posix.normalize, given the normalized body
posixAssemble(isAbsolute, trailingSeparator, body) ==
  IF Len(body) = 0 THEN
    (IF isAbsolute THEN <<FS>>
     ELSE IF trailingSeparator THEN <<DOT, FS>> ELSE <<DOT>>)
  ELSE
    (IF isAbsolute THEN <<FS>> ELSE <<>>) \o body
      \o (IF trailingSeparator THEN <<FS>> ELSE <<>>)

posixNormalize(path) ==
  IF Len(path) = 0 THEN <<DOT>>
  ELSE posixAssemble(path[1] = FS, path[Len(path)] = FS,
                     normalizeString("posix", path, path[1] # FS))

\* the non-empty arguments of join
nonEmpty(args) == SelectSeq(args, LAMBDA a : Len(a) > 0)

posixJoin(args) ==
  IF Len(nonEmpty(args)) = 0 THEN <<DOT>>
  ELSE posixNormalize(joinArray(nonEmpty(args), <<FS>>))

\* the length of the run of non-separator characters at the start of s
RECURSIVE nonSepRun(_)
nonSepRun(s) ==
  IF Len(s) > 0 /\ ~ isPathSeparator("win32", s[1]) THEN 1 + nonSepRun(Tail(s)) ELSE 0

NoRoot == [device |-> None, rootEnd |-> 0, isAbsolute |-> FALSE, done |-> None]

\* win32.normalize on a path that starts with two separators: hostLen,
\* sepRun and shareLen are the lengths of the runs that follow them
win32UncRoot(path, hostLen, sepRun, shareLen) ==
  IF hostLen > 0 /\ sepRun > 0 /\ shareLen > 0 THEN
    IF 2 + hostLen + sepRun + shareLen = Len(path)
      THEN [NoRoot EXCEPT !.isAbsolute = TRUE,
                          !.done = Some(<<BS, BS>> \o SubSeq(path, 3, 2 + hostLen) \o <<BS>>
                                         \o sliceFrom(path, 2 + hostLen + sepRun) \o <<BS>>)]
      ELSE [device |-> Some(<<BS, BS>> \o SubSeq(path, 3, 2 + hostLen) \o <<BS>>
                              \o SubSeq(path, 3 + hostLen + sepRun,
                                        2 + hostLen + sepRun + shareLen)),
            rootEnd |-> 2 + hostLen + sepRun + shareLen,
            isAbsolute |-> TRUE, done |-> None]
  ELSE [NoRoot EXCEPT !.isAbsolute = TRUE]

win32UncRuns(path, hostLen, sepRun) ==
  win32UncRoot(path, hostLen, sepRun, nonSepRun(sliceFrom(path, 2 + hostLen + sepRun)))

win32UncHost(path, hostLen) ==
  win32UncRuns(path, hostLen, runLength(sliceFrom(path, 2 + hostLen), {FS, BS}))

\* win32.normalize's root matching on a path of two or more characters:
\* the device, where the root ends, whether the path is absolute, and the
\* early return for a bare UNC root
win32Root(path) ==
  IF isPathSeparator("win32", path[1]) THEN
    IF isPathSeparator("win32", path[2])
      THEN win32UncHost(path, nonSepRun(sliceFrom(path, 2)))
      ELSE [NoRoot EXCEPT !.isAbsolute = TRUE, !.rootEnd = 1]
  ELSE IF path[1] \in Letters /\ path[2] = COLON THEN
    IF Len(path) > 2 /\ isPathSeparator("win32", path[3])
      THEN [device |-> Some(SubSeq(path, 1, 2)), rootEnd |-> 3, isAbsolute |-> TRUE, done |-> None]
      ELSE [device |-> Some(SubSeq(path, 1, 2)), rootEnd |-> 2, isAbsolute |-> FALSE, done |-> None]
  ELSE NoRoot

\* the end of win32.normalize, given the root and the normalized body
win32Assemble(path, r, body) ==
  (IF IsSome(r.device) THEN r.device[1] ELSE <<>>)
    \o (IF r.isAbsolute THEN <<BS>> ELSE <<>>)
    \o (IF Len(body) = 0 /\ ~ r.isAbsolute THEN <<DOT>> ELSE body)
    \o (IF (Len(body) > 0 \/ ~ r.isAbsolute) /\ isPathSeparator("win32", path[Len(path)])
          THEN <<BS>> ELSE <<>>)

win32Rooted(path, r) ==
  IF IsSome(r.done) THEN r.done[1]
  ELSE win32Assemble(path, r,
         IF r.rootEnd < Len(path)
           THEN normalizeString("win32", sliceFrom(path, r.rootEnd), ~ r.isAbsolute)
           ELSE <<>>)

win32Normalize(path) ==
  IF Len(path) = 0 THEN <<DOT>>
  ELSE IF Len(path) = 1 THEN (IF path[1] = FS THEN <<BS>> ELSE path)
  ELSE win32Rooted(path, win32Root(path))

\* win32.join after the arguments are joined: leading separators are
\* reduced to one unless the first part starts with exactly two separators
\* and one more character (a UNC path)
win32Joined(firstPart, joined) ==
  win32Normalize(
    IF ~ (runLength(firstPart, {FS, BS}) = 2 /\ Len(firstPart) > 2)
       /\ runLength(joined, {FS, BS}) >= 2
      THEN <<BS>> \o sliceFrom(joined, runLength(joined, {FS, BS}))
      ELSE joined)

win32Join(args) ==
  IF Len(nonEmpty(args)) = 0 THEN <<DOT>>
  ELSE win32Joined(nonEmpty(args)[1], joinArray(nonEmpty(args), <<BS>>))

parserJoin(p, args) == IF p = "win32" THEN win32Join(args) ELSE posixJoin(args)

----------------------------------------------------------------------------
(* PurePath instances: [parser, rawPaths, driveCache, rootCache,           *)
(* tailCache, strCache], and two counters of the assignments made to the   *)
(* caches: parsedWrites (driveCache, rootCache and tailCache are assigned  *)
(* together) and strWrites.                                                *)

\* constructor(...segments), the segments given as strings (a PurePath
\* segment contributes its toString())
newPath(p, segments) ==
  [parser |-> p,
   rawPaths |-> [i \in 1..Len(segments) |-> normalizeForParser(p, segments[i])],
   driveCache |-> None, rootCache |-> None, tailCache |-> None, strCache |-> None,
   parsedWrites |-> 0, strWrites |-> 0]

\* the raw segments glued by the separator, without parser.join
rawPath_Glued(inst) == joinArray(inst.rawPaths, <<sepOf(inst.parser)>>)

rawPath(inst) ==
  IF Len(inst.rawPaths) = 0 THEN <<>>
  ELSE IF Len(inst.rawPaths) = 1 THEN inst.rawPaths[1]
  ELSE parserJoin(inst.parser, inst.rawPaths)

\* the three assignments that end ensureParsed()
storeParsed(inst, parsed) ==
  [inst EXCEPT !.driveCache = Some(parsed.drive),
               !.rootCache = Some(parsed.root),
               !.tailCache = Some(parsed.tail),
               !.parsedWrites = @ + 1]

\* ensureParsed() without its guard
ensureParsed_Unguarded(inst) ==
  storeParsed(inst, parsePathString(inst.parser, rawPath(inst)))

\* the instance after ensureParsed()
ensureParsed(inst) ==
  IF IsSome(inst.tailCache) THEN inst
  ELSE storeParsed(inst, parsePathString(inst.parser, rawPath(inst)))

\* on an instance that is parsed: its drive, root, tail, anchor
driveOf(q) == q.driveCache[1]
rootOf(q) == q.rootCache[1]
tailOf_(q) == q.tailCache[1]
anchorOf(q) == q.driveCache[1] \o q.rootCache[1]

\* tailParts(): a copy of the parsed tail
tailParts(inst) == ensureParsed(inst).tailCache[1]

\* get drive, get root, get anchor
drive(inst) == ensureParsed(inst).driveCache[1]
root(inst) == ensureParsed(inst).rootCache[1]
anchor(inst) == anchorOf(ensureParsed(inst))

\* get parts, on a parsed instance
partsOf(q) == IF Len(anchorOf(q)) > 0 THEN <<anchorOf(q)>> \o tailOf_(q) ELSE tailOf_(q)
parts(inst) == partsOf(ensureParsed(inst))

\* what a call returns or throws: kind is "ok" (path holds the returned
\* instance) or the error thrown (message holds its text)
Returned(inst) == [kind |-> "ok", path |-> Some(inst), message |-> <<>>]
Thrown(kind, message) == [kind |-> kind, path |-> None, message |-> message]

\* get name, on a parsed instance
nameOf(q) == IF Len(tailOf_(q)) = 0 THEN <<>> ELSE tailOf_(q)[Len(tailOf_(q))]
name(inst) == nameOf(ensureParsed(inst))

\* the name from its last dot, leading dots included
suffixOf_LastDot(nm) ==
  IF lastIndexOf(nm, DOT) = 0 THEN <<>> ELSE sliceFrom(nm, lastIndexOf(nm, DOT) - 1)

\* get suffix: the name without its leading dots, from its last dot
suffixOf(nm) ==
  IF lastIndexOf(sliceFrom(nm, runLength(nm, {DOT})), DOT) = 0 THEN <<>>
  ELSE sliceFrom(sliceFrom(nm, runLength(nm, {DOT})),
                 lastIndexOf(sliceFrom(nm, runLength(nm, {DOT})), DOT) - 1)

suffix(inst) == suffixOf(name(inst))

\* get suffixes: the name without one leading dot, split on dots
suffixesOf(nm) ==
  IF Len(nm) = 0 THEN <<>>
  ELSE [i \in 1..(Len(split(IF nm[1] = DOT THEN Tail(nm) ELSE nm, DOT)) - 1) |->
          <<DOT>> \o split(IF nm[1] = DOT THEN Tail(nm) ELSE nm, DOT)[i + 1]]

suffixes(inst) == suffixesOf(name(inst))

\* get stem: the name up to its last dot, the whole name when that is empty
stemOf(nm) ==
  IF lastIndexOf(nm, DOT) <= 1 THEN nm ELSE SubSeq(nm, 1, lastIndexOf(nm, DOT) - 1)

stem(inst) == stemOf(name(inst))

\* toString() on a parsed instance: the instance afterwards
storeString(q) ==
  IF IsSome(q.strCache) THEN q
  ELSE [q EXCEPT !.strCache =
          Some(orDot(formatPathString(q.parser, driveOf(q), rootOf(q), tailOf_(q)))),
                 !.strWrites = @ + 1]

\* the instance after toString()
afterToString(inst) ==
  IF IsSome(inst.strCache) THEN inst ELSE storeString(ensureParsed(inst))

\* the value toString() returns
toString(inst) == afterToString(inst).strCache[1]

\* the end of cloneFromParts, given the formatted string
cloneFormatted(inst, drv, rt, tail, formatted) ==
  [parser |-> inst.parser,
   rawPaths |-> <<normalizeForParser(inst.parser, orDot(formatted))>>,
   driveCache |-> Some(drv), rootCache |-> Some(rt), tailCache |-> Some(tail),
   strCache |-> Some(orDot(formatted)),
   parsedWrites |-> 1, strWrites |-> 1]

cloneFromParts(inst, drv, rt, tail) ==
  cloneFormatted(inst, drv, rt, tail, formatPathString(inst.parser, drv, rt, tail))

\* withSegments(...segments): new ctor(...segments)
withSegments(inst, segments) == newPath(inst.parser, segments)

\* dropSegments(drop) on a parsed instance:
\* tail.slice(0, Math.max(0, tail.length - drop))
dropSegmentsOf(q, drop) ==
  cloneFromParts(q, driveOf(q), rootOf(q),
                 SubSeq(tailOf_(q), 1,
                        IF Len(tailOf_(q)) - drop > 0 THEN Len(tailOf_(q)) - drop ELSE 0))

dropSegments(inst, drop) == dropSegmentsOf(ensureParsed(inst), drop)

\* joinpath(...segments): withSegments(this, ...segments)
joinpath(inst, segments) == withSegments(inst, <<toString(inst)>> \o segments)

\* get parent, on a parsed instance
parentOf(q) ==
  IF Len(tailOf_(q)) = 0 THEN q
  ELSE cloneFromParts(q, driveOf(q), rootOf(q), SubSeq(tailOf_(q), 1, Len(tailOf_(q)) - 1))

parent(inst) == parentOf(ensureParsed(inst))

\* withName that looks for the flavour's own separator only
withNameOf_NoAltSep(q, nm) ==
  IF \/ Len(nm) = 0
     \/ \E i \in 1..Len(nm) : nm[i] = sepOf(q.parser)
     \/ nm = <<DOT>>
    THEN Thrown("invalid name", <<"Invalid name ">> \o nm)
  ELSE IF Len(tailOf_(q)) = 0
    THEN Thrown("empty name", toString(q) \o <<" has an empty name">>)
  ELSE Returned(cloneFromParts(q, driveOf(q), rootOf(q),
                               [tailOf_(q) EXCEPT ![Len(tailOf_(q))] = nm]))

\* withName(name) on a parsed instance
withNameOf(q, nm) ==
  IF \/ Len(nm) = 0
     \/ \E i \in 1..Len(nm) : nm[i] = sepOf(q.parser)
     \/ q.parser = "win32" /\ \E i \in 1..Len(nm) : nm[i] = FS
     \/ nm = <<DOT>>
    THEN Thrown("invalid name", <<"Invalid name ">> \o nm)
  ELSE IF Len(tailOf_(q)) = 0
    THEN Thrown("empty name", toString(q) \o <<" has an empty name">>)
  ELSE Returned(cloneFromParts(q, driveOf(q), rootOf(q),
                               [tailOf_(q) EXCEPT ![Len(tailOf_(q))] = nm]))

withName(inst, nm) == withNameOf(ensureParsed(inst), nm)

\* withSuffix(suffix) on a parsed instance, the suffix being valid
withSuffixOf(q, sfx) ==
  IF Len(stemOf(nameOf(q))) = 0
    THEN Thrown("empty name", toString(q) \o <<" has an empty name">>)
    ELSE withNameOf(q, stemOf(nameOf(q)) \o sfx)

\* withSuffix that takes a suffix without its leading dot
withSuffix_AnySuffix(inst, sfx) == withSuffixOf(ensureParsed(inst), sfx)

withSuffix(inst, sfx) ==
  IF Len(sfx) > 0 /\ sfx[1] # DOT
    THEN Thrown("invalid suffix", <<"Invalid suffix ">> \o sfx)
    ELSE withSuffixOf(ensureParsed(inst), sfx)

\* withStem(stem) on a parsed instance
withStemOf(q, st) ==
  IF Len(suffixOf(nameOf(q))) = 0 THEN withNameOf(q, st)
  ELSE IF Len(st) = 0
    THEN Thrown("non-empty suffix", toString(q) \o <<" has a non-empty suffix">>)
  ELSE withNameOf(q, st \o suffixOf(nameOf(q)))

withStem(inst, st) == withStemOf(ensureParsed(inst), st)

\* options?.walkUp is truthy
truthy(opt) == IsSome(opt) /\ opt[1]

\* the loop comparing the segments as they are written, without
\* normalizeCase
RECURSIVE commonPrefixIndex_CaseSensitive(_, _, _, _)
commonPrefixIndex_CaseSensitive(p, thisTail, otherTail, index) ==
  IF index < Len(thisTail) /\ index < Len(otherTail)
     /\ thisTail[index + 1] = otherTail[index + 1]
    THEN commonPrefixIndex_CaseSensitive(p, thisTail, otherTail, index + 1)
    ELSE index

\* the while loop of relativeTo: the index at which it stops
RECURSIVE commonPrefixIndex(_, _, _, _)
commonPrefixIndex(p, thisTail, otherTail, index) ==
  IF index < Len(thisTail) /\ index < Len(otherTail)
     /\ normalizeCase(p, thisTail[index + 1]) = normalizeCase(p, otherTail[index + 1])
    THEN commonPrefixIndex(p, thisTail, otherTail, index + 1)
    ELSE index

AnchorMismatch == "different anchors"
NotASubpath == "not in the subpath"

\* relativeTo after the anchor check, with an error that names no operand
relativeFrom_Unnamed(q, t, options, index) ==
  IF index < Len(tailOf_(t)) /\ ~ truthy(options)
    THEN Thrown(NotASubpath, <<"not in the subpath">>)
    ELSE Returned(cloneFromParts(q, <<>>, <<>>,
                    [i \in 1..(Len(tailOf_(t)) - index) |-> DOTDOT]
                      \o SubSeq(tailOf_(q), index + 1, Len(tailOf_(q)))))

\* relativeTo after the anchor check, given the index the loop stopped at
relativeFrom(q, t, options, index) ==
  IF index < Len(tailOf_(t)) /\ ~ truthy(options)
    THEN Thrown(NotASubpath,
                toString(q) \o <<" is not in the subpath of ">> \o toString(t))
    ELSE Returned(cloneFromParts(q, <<>>, <<>>,
                    [i \in 1..(Len(tailOf_(t)) - index) |-> DOTDOT]
                      \o SubSeq(tailOf_(q), index + 1, Len(tailOf_(q)))))

\* relativeTo on parsed operands
relativeToOf(q, t, options) ==
  IF normalizeCase(q.parser, anchorOf(q)) # normalizeCase(t.parser, anchorOf(t))
    THEN Thrown(AnchorMismatch,
                toString(q) \o <<" and ">> \o toString(t) \o <<" have different anchors">>)
    ELSE relativeFrom(q, t, options,
                      commonPrefixIndex(q.parser, tailOf_(q), tailOf_(t), 0))

\* PurePath.relativeTo(other, options) with other already a PurePath
relativeTo(this, target, options) ==
  relativeToOf(ensureParsed(this), ensureParsed(target), options)

\* an operand after relativeTo returned res: parsed, and rendered too when
\* the error message was built
relativeToTouch(inst, res) ==
  IF res.kind \in {"ok", "true"} THEN ensureParsed(inst) ELSE afterToString(inst)

\* PurePath.isRelativeTo(other)
isRelativeTo(this, target) == relativeTo(this, target, None).kind = "ok"

----------------------------------------------------------------------------
(* Bounded inputs.                                                         *)

MaxTail == 3

SeqsUpTo(S, n) == UNION {[1..k -> S] : k \in 0..n}

\* rendered anchors and components the inputs are built from
InputAnchors(p) ==
  IF p = "win32"
    THEN {<<>>, <<BS>>, <<"c", COLON, BS>>, <<"C", COLON, BS>>}
    ELSE {<<>>, <<FS>>}

InputComponents(p) ==
  IF p = "win32" THEN {<<"a">>, <<"A">>, <<"b">>} ELSE {<<"a">>, <<"b">>, DOTDOT}

\* the path strings handed to the constructor
InputPaths(p) ==
  {a \o joinArray(t, <<sepOf(p)>>) :
     a \in InputAnchors(p), t \in SeqsUpTo(InputComponents(p), MaxTail)}

WalkUpOptions == {None, Some(TRUE), Some(FALSE)}

NoResult == [kind |-> "none", path |-> None, message |-> <<>>]
NoPath == None
NoCall == [op |-> "none", policy |-> None, follow |-> None, kind |-> "none",
           probes |-> 0, directory |-> FALSE, inner |-> NoResult]
NoArray == [alias |-> 0, val |-> <<>>]
NoDisk == <<>>

----------------------------------------------------------------------------
(* SpecRelativeTo: PurePath.relativeTo applied to every pair of inputs.    *)

RelInit ==
  /\ pc = "new"
  /\ parser \in Parsers
  /\ self = NoPath
  /\ other = NoPath
  /\ walkUp = None
  /\ segs = <<>>
  /\ result = NoResult
  /\ listing = <<>>
  /\ current = NoPath
  /\ call = NoCall
  /\ heap = <<>>
  /\ held = NoArray
  /\ pending = <<>>
  /\ disk = NoDisk

\* const p = new P(s)
RelConstructSelf ==
  /\ pc = "new"
  /\ \E s \in InputPaths(parser) : self' = newPath(parser, <<s>>)
  /\ pc' = "other"
  /\ UNCHANGED <<parser, other, segs, walkUp, result, listing, current, call, heapVars>>

\* const o = new P(s)
RelConstructOther ==
  /\ pc = "other"
  /\ \E o \in InputPaths(parser) : other' = newPath(parser, <<o>>)
  /\ pc' = "call"
  /\ UNCHANGED <<parser, self, segs, walkUp, result, listing, current, call, heapVars>>

\* p.relativeTo(o, {walkUp})
CallRelativeTo ==
  /\ pc = "call"
  /\ \E w \in WalkUpOptions :
       /\ walkUp' = w
       /\ result' = relativeTo(self, other, w)
  /\ self' = relativeToTouch(self, result')
  /\ other' = relativeToTouch(other, result')
  /\ pc' = "done"
  /\ UNCHANGED <<parser, segs, listing, current, call, heapVars>>

RelNext == RelConstructSelf \/ RelConstructOther \/ CallRelativeTo

SpecRelativeTo == RelInit /\ [][RelNext]_vars

\* the length of the longest common prefix of two tails under case folding
LongestCommonPrefix(p, a, b) ==
  CHOOSE k \in 0..Len(a) :
    /\ k <= Len(b)
    /\ \A i \in 1..k : normalizeCase(p, a[i]) = normalizeCase(p, b[i])
    /\ \A j \in (k + 1)..Len(a) :
         j <= Len(b) => \E i \in 1..j : normalizeCase(p, a[i]) # normalizeCase(p, b[i])

----------------------------------------------------------------------------
(* SpecJoin: the constructor and joinpath applied to a receiver and one or *)
(* two segments.                                                           *)

MaxJoinTail == 2
MaxSegments == 2

JoinAnchors(p) ==
  IF p = "win32"
    THEN {<<>>, <<BS>>, <<"C", COLON>>, <<"C", COLON, BS>>}
    ELSE {<<>>, <<FS>>}

JoinComponents == {<<"a">>, DOTDOT}

JoinInputs(p) ==
  {a \o joinArray(t, <<sepOf(p)>>) :
     a \in JoinAnchors(p), t \in SeqsUpTo(JoinComponents, MaxJoinTail)}

\* a segment with a root or a drive
isAnchored(p, segment) ==
  Len(parsePathString(p, segment).drive) > 0 \/ Len(parsePathString(p, segment).root) > 0

JoinInit ==
  /\ pc = "new"
  /\ parser \in Parsers
  /\ self = NoPath
  /\ segs = <<>>
  /\ other = NoPath
  /\ walkUp = None
  /\ result = NoResult
  /\ listing = <<>>
  /\ current = NoPath
  /\ call = NoCall
  /\ heap = <<>>
  /\ held = NoArray
  /\ pending = <<>>
  /\ disk = NoDisk

\* const a = new P(s)
JoinConstruct ==
  /\ pc = "new"
  /\ \E s \in JoinInputs(parser) : self' = newPath(parser, <<s>>)
  /\ pc' = "args"
  /\ UNCHANGED <<parser, other, segs, walkUp, result, listing, current, call, heapVars>>

\* the caller collects the segments of the coming call, one at a time
JoinAddSegment ==
  /\ pc = "args"
  /\ Len(segs) < MaxSegments
  /\ \E s \in JoinInputs(parser) : segs' = Append(segs, s)
  /\ UNCHANGED <<pc, parser, self, other, walkUp, result, listing, current, call, heapVars>>

\* a.joinpath(...segs)
CallJoinpath ==
  /\ pc = "args"
  /\ Len(segs) > 0
  /\ result' = Returned(joinpath(self, segs))
  /\ pc' = "joined"
  /\ self' = afterToString(self)
  /\ UNCHANGED <<parser, other, segs, walkUp, listing, current, call, heapVars>>

\* a.joinpath(segs[1]).joinpath(segs[2])
CallJoinpathChained ==
  /\ pc = "args"
  /\ Len(segs) = 2
  /\ result' = Returned(joinpath(joinpath(self, <<segs[1]>>), <<segs[2]>>))
  /\ pc' = "chained"
  /\ self' = afterToString(self)
  /\ UNCHANGED <<parser, other, segs, walkUp, listing, current, call, heapVars>>

\* new P(rawPath(self), ...segs): the constructor given several strings
CallConstructor ==
  /\ pc = "args"
  /\ Len(segs) > 0
  /\ result' = Returned(newPath(parser, <<rawPath(self)>> \o segs))
  /\ pc' = "constructed"
  /\ UNCHANGED <<parser, self, other, segs, walkUp, listing, current, call, heapVars>>

JoinNext == JoinConstruct \/ JoinAddSegment \/ CallJoinpath \/ CallJoinpathChained \/ CallConstructor

SpecJoin == JoinInit /\ [][JoinNext]_vars

\* the tails of the given strings, one after the other
RECURSIVE concatTails(_, _)
concatTails(p, strs) ==
  IF Len(strs) = 0 THEN <<>>
  ELSE parsePathString(p, strs[1]).tail \o concatTails(p, Tail(strs))

\* C5: the tail of a path built from several segments is the components of
\* the segments in order, without the empty and '.' ones; every '..' is
\* kept (stated for segments that add no anchor of their own).
C5_DotDotKept ==
  (pc \in {"joined", "constructed"} /\ \A i \in 1..Len(segs) : ~ isAnchored(parser, segs[i]))
    => tailParts(result.path[1]) = concatTails(parser, <<toString(self)>> \o segs)

\* C6: joinpath with an anchored last segment starts over from that
\* segment.
C6_AnchoredSegmentReplaces ==
  (pc = "joined" /\ isAnchored(parser, segs[Len(segs)]))
    => toString(result.path[1]) = toString(newPath(parser, <<segs[Len(segs)]>>))

\* C7: a.joinpath(b).joinpath(c) renders as a.joinpath(b, c) for
\* non-anchored b and c.
C7_JoinComposition ==
  (pc = "chained" /\ \A i \in 1..Len(segs) : ~ isAnchored(parser, segs[i]))
    => toString(result.path[1]) = toString(joinpath(self, segs))
----------------------------------------------------------------------------
(* SpecParents: the constructor of PathParents, one loop iteration per     *)
(* step, and the accessors of the finished sequence.                       *)

ParentsAnchors(p) ==
  IF p = "win32"
    THEN {<<>>, <<BS>>, <<"c", COLON>>, <<"c", COLON, BS>>,
          <<BS, BS, "a", BS, "b">>, <<BS, BS, "a", BS, "b", BS>>}
    ELSE {<<>>, <<FS>>}

ParentsInputs(p) ==
  {a \o joinArray(t, <<sepOf(p)>>) :
     a \in ParentsAnchors(p), t \in SeqsUpTo({<<"a">>, <<"b">>, DOTDOT}, MaxTail)}

ParentsInit ==
  /\ pc = "new"
  /\ parser \in Parsers
  /\ self = NoPath
  /\ other = NoPath
  /\ walkUp = None
  /\ segs = <<>>
  /\ result = NoResult
  /\ listing = <<>>
  /\ current = NoPath
  /\ call = NoCall
  /\ heap = <<>>
  /\ held = NoArray
  /\ pending = <<>>
  /\ disk = NoDisk

\* const origin = new P(s)
ParentsConstruct ==
  /\ pc = "new"
  /\ \E s \in ParentsInputs(parser) : self' = newPath(parser, <<s>>)
  /\ pc' = "enter"
  /\ UNCHANGED <<parser, other, segs, walkUp, result, listing, current, call, heapVars>>

\* origin.parents: const result = []; let current = origin.parent;
\* const seenAnchor = origin.toString()
ParentsEnter ==
  /\ pc = "enter"
  /\ current' = parent(self)
  /\ self' = afterToString(self)
  /\ listing' = <<>>
  /\ pc' = "loop"
  /\ UNCHANGED <<parser, other, segs, walkUp, result, call, heapVars>>

\* a loop that never breaks
parentsBreak_Never(next, cur) == FALSE

\* `next.toString() === current.toString()`: the guard that breaks the loop
\* at the fixpoint
parentsBreak(next, cur) == toString(next) = toString(cur)

\* one evaluation of the loop condition and, when it holds, of the body
ParentsStep ==
  /\ pc = "loop"
  /\ IF toString(current) # toString(self)
       THEN /\ listing' = Append(listing, current)
            /\ IF parentsBreak(parent(current), current)
                 THEN pc' = "done" /\ current' = current
                 ELSE pc' = "loop" /\ current' = parent(current)
       ELSE pc' = "done" /\ UNCHANGED <<listing, current>>
  /\ UNCHANGED <<parser, self, other, segs, walkUp, result, call, heapVars>>

\* Array.prototype.at over the listing: 0-based, negative from the end
arrayAt(arr, index) ==
  IF index >= 0 /\ index < Len(arr) THEN Returned(arr[index + 1])
  ELSE IF index < 0 /\ Len(arr) + index >= 0 THEN Returned(arr[Len(arr) + index + 1])
  ELSE Thrown("undefined", <<>>)

\* parents.at(index)
ParentsAt ==
  /\ pc = "done"
  /\ \E index \in (0 - MaxTail - 1)..(MaxTail + 1) : result' = arrayAt(listing, index)
  /\ UNCHANGED <<pc, parser, self, other, segs, walkUp, listing, current, call, heapVars>>

ParentsNext == ParentsConstruct \/ ParentsEnter \/ ParentsStep \/ ParentsAt

SpecParents == ParentsInit /\ [][ParentsNext]_vars

\* C10: building p.parents terminates (the loop never runs more than
\* len(p.tail) bodies) and gives exactly len(p.tail) paths; element i is p
\* with its last i tail components dropped (i counted from 1), has p's
\* drive and root, the last element is its own parent, a path with an empty
\* tail is its own parent, and every later read finds the same sequence.
C10_Parents ==
  /\ pc \in {"loop", "done"} => Len(listing) <= Len(tailParts(self))
  /\ pc = "done" =>
       /\ Len(listing) = Len(tailParts(self))
       /\ \A i \in 1..Len(listing) :
            /\ drive(listing[i]) = drive(self)
            /\ root(listing[i]) = root(self)
            /\ tailParts(listing[i])
                 = SubSeq(tailParts(self), 1, Len(tailParts(self)) - i)
            /\ toString(listing[i]) = toString(dropSegments(self, i))
       /\ anchor(parent(self)) = anchor(self)
       /\ Len(listing) > 0 =>
            /\ toString(parent(listing[Len(listing)])) = toString(listing[Len(listing)])
            /\ toString(listing[Len(listing)]) = orDot(anchor(self))
       /\ Len(tailParts(self)) = 0 => toString(parent(self)) = toString(self)
       /\ result.kind = "ok" => \E i \in 1..Len(listing) : result.path[1] = listing[i]

\* the parents of a three-component path under a drive were built and read
C10_Witness ==
  /\ pc = "done"
  /\ Len(listing) = 3
  /\ Len(drive(self)) > 0
  /\ result.kind = "ok"
  /\ result.path[1] = listing[3]

----------------------------------------------------------------------------
(* SpecPolicy: Path.relativeTo and Path.isRelativeTo under the three        *)
(* resolution policies. An auto call probes the filesystem when it is made  *)
(* and is resumed by a later step.                                          *)

\* what the filesystem holds at the path of other when it is probed
Kinds == {"missing", "file", "dir", "symlinkToDir"}

\* isDirSync: statSync follows a link, lstatSync does not, either throws on a
\* missing path and the catch answers false
isDirSync_AlwaysFollow(kind, follow) ==
  IF kind = "missing" THEN FALSE ELSE kind \in {"dir", "symlinkToDir"}

isDirSync(kind, follow) ==
  IF kind = "missing" THEN FALSE
  ELSE IF follow THEN kind \in {"dir", "symlinkToDir"}
  ELSE kind = "dir"

PolicyOptions == {None, Some("exact"), Some("parent"), Some("auto")}
FollowOptions == {None, Some(TRUE), Some(FALSE)}

\* options?.extra?.policy ?? "exact" and options?.extra?.followSymlinks ?? true
policyOf(opt) == IF IsSome(opt) THEN opt[1] ELSE "exact"
followOf(opt) == IF IsSome(opt) THEN opt[1] ELSE TRUE

\* the base the lexical computation runs against
baseOf_Target(target, useParent) == target

baseOf(target, useParent) ==
  IF useParent THEN dropSegments(target, 1) ELSE target

\* applyRelative(base): super.relativeTo(base) or super.relativeTo(base, {walkUp})
applyRelative(this, base, w) == relativeTo(this, base, w)

\* target after the call: dropSegments parses it, relativeTo touches it when
\* it is the base itself
targetAfter(target, useParent, res) ==
  IF useParent THEN ensureParsed(target) ELSE relativeToTouch(target, res)

\* Path.relativeTo under "exact" and "parent"
pathRelativeTo(this, target, policy, w) ==
  applyRelative(this, baseOf(target, policy = "parent"), w)

\* the boolean a call answers with
Answer(b) == [kind |-> IF b THEN "true" ELSE "false", path |-> None, message |-> <<>>]

\* Path.isRelativeTo under "exact" and "parent", ignoring extra.walkUp
pathIsRelativeTo_NoWalkUp(this, target, policy, w) ==
  Answer(isRelativeTo(this, baseOf(target, policy = "parent")))

\* Path.isRelativeTo under "exact" and "parent": super.isRelativeTo(base)
\* when extra.walkUp is undefined, else this.relativeTo(base, {walkUp})
\* inside try/catch
pathIsRelativeTo(this, target, policy, w) ==
  IF ~ IsSome(w)
    THEN Answer(isRelativeTo(this, baseOf(target, policy = "parent")))
    ELSE Answer(pathRelativeTo(this, baseOf(target, policy = "parent"),
                               "exact", w).kind = "ok")

MaxPolicyTail == 2

PolicyAnchors(p) ==
  IF p = "win32" THEN {<<>>, <<"c", COLON, BS>>, <<"C", COLON, BS>>}
  ELSE {<<>>, <<FS>>}

PolicyInputs(p) ==
  {a \o joinArray(t, <<sepOf(p)>>) :
     a \in PolicyAnchors(p), t \in SeqsUpTo({<<"a">>, <<"b">>}, MaxPolicyTail)}

PolicyInit == RelInit

\* const p = new Path(s)
PolicyConstructSelf ==
  /\ pc = "new"
  /\ \E s \in PolicyInputs(parser) : self' = newPath(parser, <<s>>)
  /\ pc' = "other"
  /\ UNCHANGED <<parser, other, segs, walkUp, result, listing, current, call, heapVars>>

\* const o = new Path(s)
PolicyConstructOther ==
  /\ pc = "other"
  /\ \E o \in PolicyInputs(parser) : other' = newPath(parser, <<o>>)
  /\ pc' = "call"
  /\ UNCHANGED <<parser, self, segs, walkUp, result, listing, current, call, heapVars>>

\* p.relativeTo(o, {walkUp, extra: {policy, followSymlinks}}): under "auto"
\* the async body runs up to its await, so the probe is made by the call
CallPathRelativeTo ==
  /\ pc = "call"
  /\ \E pol \in PolicyOptions, w \in WalkUpOptions, f \in FollowOptions, k \in Kinds :
       /\ walkUp' = w
       /\ IF policyOf(pol) = "auto"
            THEN /\ call' = [op |-> "relativeTo", policy |-> pol, follow |-> f,
                             kind |-> k, probes |-> 1,
                             directory |-> isDirSync(k, followOf(f)),
                             inner |-> NoResult]
                 /\ other' = afterToString(other)
                 /\ pc' = "suspended"
                 /\ UNCHANGED <<self, result>>
            ELSE /\ call' = [op |-> "relativeTo", policy |-> pol, follow |-> f,
                             kind |-> "none", probes |-> 0, directory |-> FALSE,
                             inner |-> NoResult]
                 /\ result' = pathRelativeTo(self, other, policyOf(pol), w)
                 /\ self' = relativeToTouch(self, result')
                 /\ other' = targetAfter(other, policyOf(pol) = "parent", result')
                 /\ pc' = "returned"
  /\ UNCHANGED <<parser, segs, listing, current, heapVars>>

\* the async body of Path.relativeTo after its await; it settles the promise
\* of relativeTo, or the one Path.isRelativeTo awaits
ResumeRelativeTo ==
  /\ pc = "suspended"
  /\ IF call.op = "relativeTo"
       THEN /\ result' = applyRelative(self, baseOf(other, ~ call.directory), walkUp)
            /\ self' = relativeToTouch(self, result')
            /\ other' = targetAfter(other, ~ call.directory, result')
            /\ pc' = "settled"
            /\ UNCHANGED call
       ELSE /\ call' = [call EXCEPT !.inner =
                          applyRelative(self, baseOf(other, ~ call.directory), walkUp)]
            /\ self' = relativeToTouch(self, call'.inner)
            /\ other' = targetAfter(other, ~ call.directory, call'.inner)
            /\ pc' = "inner"
            /\ UNCHANGED result
  /\ UNCHANGED <<parser, segs, walkUp, listing, current, heapVars>>

\* p.isRelativeTo(o, {extra: {policy, followSymlinks, walkUp}}): under "auto"
\* the async body calls this.relativeTo(target, {..., policy: "auto"}), which
\* probes, and awaits its promise
CallPathIsRelativeTo ==
  /\ pc = "call"
  /\ \E pol \in PolicyOptions, w \in WalkUpOptions, f \in FollowOptions, k \in Kinds :
       /\ walkUp' = w
       /\ IF policyOf(pol) = "auto"
            THEN /\ call' = [op |-> "isRelativeTo", policy |-> pol, follow |-> f,
                             kind |-> k, probes |-> 1,
                             directory |-> isDirSync(k, followOf(f)),
                             inner |-> NoResult]
                 /\ other' = afterToString(other)
                 /\ pc' = "suspended"
                 /\ UNCHANGED <<self, result>>
            ELSE /\ call' = [op |-> "isRelativeTo", policy |-> pol, follow |-> f,
                             kind |-> "none", probes |-> 0, directory |-> FALSE,
                             inner |-> NoResult]
                 /\ result' = pathIsRelativeTo(self, other, policyOf(pol), w)
                 /\ self' = relativeToTouch(self, result')
                 /\ other' = targetAfter(other, policyOf(pol) = "parent", result')
                 /\ pc' = "returned"
  /\ UNCHANGED <<parser, segs, listing, current, heapVars>>

\* the async body of Path.isRelativeTo after its await: true, or false from
\* the catch
ResumeIsRelativeTo ==
  /\ pc = "inner"
  /\ result' = Answer(call.inner.kind = "ok")
  /\ pc' = "settled"
  /\ UNCHANGED <<parser, self, other, segs, walkUp, listing, current, call, heapVars>>

PolicyNext ==
  \/ PolicyConstructSelf
  \/ PolicyConstructOther
  \/ CallPathRelativeTo
  \/ ResumeRelativeTo
  \/ CallPathIsRelativeTo
  \/ ResumeIsRelativeTo

SpecPolicy == PolicyInit /\ [][PolicyNext]_vars

ProbeAnswersTrue ==
  \/ call.kind = "dir"
  \/ call.kind = "symlinkToDir" /\ followOf(call.follow)

C3_WitnessRejected ==
  /\ pc = "settled"
  /\ call.op = "relativeTo"
  /\ result.kind = AnchorMismatch

\* base is a lexical ancestor of this (or this itself), or can be walked up to
LexicallyRelative(this, baseTail, baseAnchor, w) ==
  /\ normalizeCase(parser, anchor(this)) = normalizeCase(parser, baseAnchor)
  /\ \/ truthy(w)
     \/ /\ Len(baseTail) <= Len(tailParts(this))
        /\ \A i \in 1..Len(baseTail) :
             normalizeCase(parser, tailParts(this)[i]) = normalizeCase(parser, baseTail[i])

\* the tail without its last component
Front(t) == SubSeq(t, 1, Len(t) - 1)

\* C4: isRelativeTo never throws and never rejects. Under 'exact' or
\* 'parent' it answers with a boolean in the call itself, true exactly when
\* relativeTo with the same policy and walkUp succeeds (without walkUp this
\* is PurePath.isRelativeTo); under 'auto' its promise always fulfils, with
\* true exactly when the auto relativeTo with the same followSymlinks and
\* walkUp succeeds.
C4_IsRelativeTo ==
  call.op = "isRelativeTo" =>
    /\ result.kind \in {"none", "true", "false"}
    /\ policyOf(call.policy) = "exact" =>
         /\ pc = "returned"
         /\ call.probes = 0
         /\ result = Answer(LexicallyRelative(self, tailParts(other), anchor(other), walkUp))
    /\ policyOf(call.policy) = "parent" =>
         /\ pc = "returned"
         /\ call.probes = 0
         /\ result = Answer(LexicallyRelative(self, Front(tailParts(other)),
                                              anchor(other), walkUp))
    /\ policyOf(call.policy) = "auto" =>
         /\ pc \in {"suspended", "inner", "settled"}
         /\ call.probes = 1
         /\ pc # "settled" => result = NoResult
         /\ pc = "settled" =>
              result = Answer(LexicallyRelative(self,
                                IF ProbeAnswersTrue THEN tailParts(other)
                                ELSE Front(tailParts(other)),
                                anchor(other), walkUp))

\* an auto isRelativeTo whose inner relativeTo rejected, answered false
C4_Witness ==
  /\ pc = "settled"
  /\ call.op = "isRelativeTo"
  /\ call.inner.kind = NotASubpath
  /\ result.kind = "false"

\* a synchronous isRelativeTo that is true only because of extra.walkUp
C4_WitnessWalkUp ==
  /\ pc = "returned"
  /\ call.op = "isRelativeTo"
  /\ walkUp = Some(TRUE)
  /\ result.kind = "true"
  /\ ~ isRelativeTo(self, other)

----------------------------------------------------------------------------
(* Spec: a caller that constructs instances, reads them, derives new ones   *)
(* from them and mutates the arrays it was handed. heap[i] is the i-th      *)
(* instance created; a derived instance is kept while the heap has room.    *)

MaxHeap == 3

\* the caller of SpecPending keeps fewer instances
MaxOperands == 2

HeapInputs(p) ==
  IF p = "win32"
    THEN {<<"C", COLON, BS, "a", BS, "b", DOT, "c">>, <<"c", COLON, FS, "A">>}
    ELSE {<<FS, "a", FS, "b", DOT, "c">>, <<"b">>}

Instances == 1..Len(heap)

Put(h, i, inst) == [h EXCEPT ![i] = inst]
Room(h) == Len(h) < (IF pc = "pending" THEN MaxOperands ELSE MaxHeap)
Alloc(h, inst) == IF Room(h) THEN Append(h, inst) ELSE h

\* the heap after a transform on heap[i] that returned or threw res
Derived(h, res) == IF res.kind = "ok" THEN Alloc(h, res.path[1]) ELSE h

\* [...array]: a new array, which is the cache of no instance
spread(owner) == 0

\* the receiver after withName / withSuffix / withStem returned or threw
\* res; untouched is the error thrown before the receiver is read
afterNaming(inst, res, untouched) ==
  IF res.kind = untouched THEN inst
  ELSE IF res.kind \in {"empty name", "non-empty suffix"} THEN afterToString(inst)
  ELSE ensureParsed(inst)

\* the PathParents constructor: the listing built from the parent of origin
RECURSIVE parentsLoop(_, _, _)
parentsLoop(cur, seenAnchor, acc) ==
  IF toString(cur) = seenAnchor THEN acc
  ELSE IF toString(parent(cur)) = toString(cur) THEN Append(acc, cur)
  ELSE parentsLoop(parent(cur), seenAnchor, Append(acc, cur))

parents(inst) == parentsLoop(parent(inst), toString(inst), <<>>)

Init ==
  /\ pc = "heap"
  /\ parser \in Parsers
  /\ self = NoPath
  /\ other = NoPath
  /\ walkUp = None
  /\ segs = <<>>
  /\ result = NoResult
  /\ listing = <<>>
  /\ current = NoPath
  /\ call = NoCall
  /\ heap = <<>>
  /\ held = NoArray
  /\ pending = <<>>
  /\ disk = NoDisk

idle == <<pc, parser, self, other, segs, walkUp, result, listing, current, call, disk>>

\* new P(s)
New ==
  /\ Room(heap)
  /\ \E s \in HeapInputs(parser) : heap' = Append(heap, newPath(parser, <<s>>))
  /\ UNCHANGED <<idle, held, pending>>

\* get drive, get root, get anchor, get name, get suffix, get stem: each
\* runs ensureParsed() and returns a string
GetAnchor ==
  /\ \E i \in Instances : heap' = Put(heap, i, ensureParsed(heap[i]))
  /\ UNCHANGED <<idle, held, pending>>

\* get parts: the caller keeps the array
GetParts ==
  /\ \E i \in Instances :
       /\ heap' = Put(heap, i, ensureParsed(heap[i]))
       /\ held' = [alias |-> spread(i), val |-> parts(heap[i])]
  /\ UNCHANGED <<idle, pending>>

\* get suffixes: the caller keeps the array
GetSuffixes ==
  /\ \E i \in Instances :
       /\ heap' = Put(heap, i, ensureParsed(heap[i]))
       /\ held' = [alias |-> 0, val |-> suffixes(heap[i])]
  /\ UNCHANGED <<idle, pending>>

\* toString()
ToString ==
  /\ \E i \in Instances : heap' = Put(heap, i, afterToString(heap[i]))
  /\ UNCHANGED <<idle, held, pending>>

\* the caller overwrites the first element of the array it holds, or pops
\* its last; an array that is an instance's cache changes in the instance
CallerMutates ==
  /\ Len(held.val) > 0
  /\ \E v \in {[held.val EXCEPT ![1] = <<"z">>], SubSeq(held.val, 1, Len(held.val) - 1)} :
       /\ held' = [held EXCEPT !.val = v]
       /\ heap' = IF held.alias = 0 THEN heap
                  ELSE Put(heap, held.alias, [heap[held.alias] EXCEPT !.tailCache = Some(v)])
  /\ UNCHANGED <<idle, pending>>

\* get parent: this itself when the tail is empty
Parent ==
  /\ \E i \in Instances :
       heap' = IF Len(tailParts(heap[i])) = 0
                 THEN Put(heap, i, ensureParsed(heap[i]))
                 ELSE Alloc(Put(heap, i, ensureParsed(heap[i])), parent(heap[i]))
  /\ UNCHANGED <<idle, held, pending>>

\* p.parents.at(k)
ParentsOf ==
  /\ \E i \in Instances :
       \/ /\ parents(heap[i]) = <<>>
          /\ heap' = Put(heap, i, afterToString(heap[i]))
       \/ \E k \in 1..Len(parents(heap[i])) :
            heap' = Alloc(Put(heap, i, afterToString(heap[i])), parents(heap[i])[k])
  /\ UNCHANGED <<idle, held, pending>>

\* joinpath(segment)
Joinpath ==
  /\ \E i \in Instances, seg \in {<<"x">>} :
       heap' = Alloc(Put(heap, i, afterToString(heap[i])), joinpath(heap[i], <<seg>>))
  /\ UNCHANGED <<idle, held, pending>>

\* dropSegments(n)
DropSegments ==
  /\ \E i \in Instances, n \in 1..2 :
       heap' = Alloc(Put(heap, i, ensureParsed(heap[i])), dropSegments(heap[i], n))
  /\ UNCHANGED <<idle, held, pending>>

\* withName(name)
WithName ==
  /\ \E i \in Instances, nm \in {<<"n">>, <<>>} :
       heap' = Derived(Put(heap, i, afterNaming(heap[i], withName(heap[i], nm),
                                                "invalid name")),
                       withName(heap[i], nm))
  /\ UNCHANGED <<idle, held, pending>>

\* withSuffix(suffix)
WithSuffix ==
  /\ \E i \in Instances, sfx \in {<<DOT, "s">>, <<"s">>} :
       heap' = Derived(Put(heap, i, afterNaming(heap[i], withSuffix(heap[i], sfx),
                                                "invalid suffix")),
                       withSuffix(heap[i], sfx))
  /\ UNCHANGED <<idle, held, pending>>

\* withStem(stem)
WithStem ==
  /\ \E i \in Instances, st \in {<<"t">>, <<>>} :
       heap' = Derived(Put(heap, i, afterNaming(heap[i], withStem(heap[i], st), "none")),
                       withStem(heap[i], st))
  /\ UNCHANGED <<idle, held, pending>>

\* the heap after heap[i].relativeTo(heap[j], {walkUp: w}) returned or
\* threw res
afterRelativeTo(h, i, j, res) ==
  Derived(Put(Put(h, i, relativeToTouch(h[i], res)), j, relativeToTouch(h[j], res)), res)

\* relativeTo(other, {walkUp}), other being an instance
RelativeTo ==
  /\ \E i \in Instances, j \in Instances, w \in {None, Some(TRUE)} :
       heap' = afterRelativeTo(heap, i, j, relativeTo(heap[i], heap[j], w))
  /\ UNCHANGED <<idle, held, pending>>

\* isRelativeTo(other): relativeTo(other) inside try/catch
IsRelativeTo ==
  /\ \E i \in Instances, j \in Instances :
       heap' = Put(Put(heap, i, relativeToTouch(heap[i], Answer(isRelativeTo(heap[i], heap[j])))),
                   j, relativeToTouch(heap[j], Answer(isRelativeTo(heap[i], heap[j]))))
  /\ UNCHANGED <<idle, held, pending>>

\* match(pattern) reads this.parts, fullMatch(pattern) this.toString(); the
\* pattern is a string, its instance is not kept
Match ==
  /\ \E i \in Instances, full \in BOOLEAN :
       heap' = Put(heap, i, IF full THEN afterToString(heap[i]) ELSE ensureParsed(heap[i]))
  /\ UNCHANGED <<idle, held, pending>>

Next ==
  \/ New
  \/ GetAnchor
  \/ GetParts
  \/ GetSuffixes
  \/ ToString
  \/ CallerMutates
  \/ Parent
  \/ ParentsOf
  \/ Joinpath
  \/ DropSegments
  \/ WithName
  \/ WithSuffix
  \/ WithStem
  \/ RelativeTo
  \/ IsRelativeTo
  \/ Match

Spec == Init /\ [][Next]_vars

\* the values an instance reports
Reported(inst) ==
  [drive |-> drive(inst), root |-> root(inst), anchor |-> anchor(inst),
   parts |-> parts(inst), name |-> name(inst), str |-> toString(inst)]

\* C8: after construction the values an instance reports (drive, root,
\* anchor, parts, name, rendered string) never change, whatever accessors
\* and transforms are applied to it or to paths derived from it and
\* whatever the caller does to an array returned by parts or suffixes; the
\* decomposition cache and the rendered-string cache are each written at
\* most once per instance.
C8_Immutable ==
  [][/\ \A i \in 1..Len(heap) :
          /\ i <= Len(heap')
          /\ Reported(heap'[i]) = Reported(heap[i])
          /\ IsSome(heap[i].tailCache) =>
               /\ heap'[i].driveCache = heap[i].driveCache
               /\ heap'[i].rootCache = heap[i].rootCache
               /\ heap'[i].tailCache = heap[i].tailCache
          /\ IsSome(heap[i].strCache) => heap'[i].strCache = heap[i].strCache
     /\ \A i \in 1..Len(heap') :
          /\ heap'[i].parsedWrites <= 1
          /\ heap'[i].strWrites <= 1]_vars

\* a constructed instance whose two caches were filled by reads, next to an
\* instance derived from it, while the caller holds an array it has
\* overwritten
C8_Witness ==
  /\ Len(heap) >= 2
  /\ heap[1].parsedWrites = 1
  /\ heap[1].strWrites = 1
  /\ toString(heap[2]) # toString(heap[1])
  /\ Len(held.val) > 0
  /\ held.val[1] = <<"z">>
  /\ parts(heap[1])[1] # <<"z">>

----------------------------------------------------------------------------
(* SpecPending: auto-policy calls on the instances of the heap. A call      *)
(* probes when it is made and stays in `pending` from then on; the calls    *)
(* that are suspended resume in any order, between any other steps of the   *)
(* caller. A record of `pending` holds the closure of the call (this,       *)
(* target, walkUp, directory), its state, and the two operands as they      *)
(* were when the call was made.                                             *)

MaxPending == 2

\* these calls leave walkUp undefined
PendingWalkUps == {None}

\* the probe answer the resumed body of call k reads: its own local
probeOf_Latest(calls, k) == calls[Len(calls)].directory

probeOf(calls, k) == calls[k].directory

\* p.relativeTo(o, {walkUp, extra: {policy: "auto", followSymlinks}}) or
\* p.isRelativeTo(o, {extra: {policy: "auto", followSymlinks, walkUp}}): the
\* probe renders o and asks the filesystem
CallAuto ==
  /\ Len(pending) < MaxPending
  /\ \E op \in {"relativeTo", "isRelativeTo"}, i \in Instances, j \in Instances,
        w \in PendingWalkUps, f \in FollowOptions, k \in Kinds :
       /\ pending' = Append(pending,
            [op |-> op, this |-> i, target |-> j, walkUp |-> w,
             directory |-> isDirSync(k, followOf(f)), probes |-> 1,
             state |-> "suspended", inner |-> NoResult, outcome |-> NoResult,
             thisAtCall |-> heap[i], targetAtCall |-> heap[j]])
       /\ heap' = Put(heap, j, afterToString(heap[j]))
  /\ UNCHANGED <<idle, held>>

\* the heap after call c computed res against its target or the parent of
\* its target
afterResume(h, c, useParent, res) ==
  Put(Put(h, c.this, relativeToTouch(h[c.this], res)),
      c.target, targetAfter(Put(h, c.this, relativeToTouch(h[c.this], res))[c.target],
                            useParent, res))

\* call c once the body of Path.relativeTo has run to its end with res
settle(c, res) ==
  IF c.op = "relativeTo"
    THEN [c EXCEPT !.state = "settled", !.outcome = res]
    ELSE [c EXCEPT !.state = "inner", !.inner = res]

\* the async body of Path.relativeTo resumes after its await
ResumeAuto ==
  /\ \E k \in 1..Len(pending) :
       /\ pending[k].state = "suspended"
       /\ pending' = [pending EXCEPT ![k] =
            settle(pending[k],
                   applyRelative(heap[pending[k].this],
                                 baseOf(heap[pending[k].target], ~ probeOf(pending, k)),
                                 pending[k].walkUp))]
       /\ heap' = afterResume(heap, pending[k], ~ probeOf(pending, k),
                              IF pending[k].op = "relativeTo"
                                THEN pending'[k].outcome ELSE pending'[k].inner)
  /\ UNCHANGED <<idle, held>>

\* the async body of Path.isRelativeTo resumes after its await
ResumeOuter ==
  /\ \E k \in 1..Len(pending) :
       /\ pending[k].state = "inner"
       /\ pending' = [pending EXCEPT ![k] =
            [pending[k] EXCEPT !.state = "settled",
                               !.outcome = Answer(pending[k].inner.kind = "ok")]]
  /\ UNCHANGED <<idle, heap, held>>

PendingNext ==
  \/ New
  \/ GetAnchor
  \/ ToString
  \/ DropSegments
  \/ Joinpath
  \/ CallAuto
  \/ ResumeAuto
  \/ ResumeOuter

PendingInit ==
  /\ pc = "pending"
  /\ parser \in Parsers
  /\ self = NoPath
  /\ other = NoPath
  /\ walkUp = None
  /\ segs = <<>>
  /\ result = NoResult
  /\ listing = <<>>
  /\ current = NoPath
  /\ call = NoCall
  /\ heap = <<>>
  /\ held = NoArray
  /\ pending = <<>>
  /\ disk = NoDisk

SpecPending == PendingInit /\ [][PendingNext]_vars

\* what call c settles with, from its operands as they were when it was
\* made and its own probe answer
Expected(c) ==
  IF c.op = "relativeTo"
    THEN relativeTo(c.thisAtCall,
                    IF c.directory THEN c.targetAtCall ELSE parent(c.targetAtCall),
                    c.walkUp)
    ELSE Answer(relativeTo(c.thisAtCall,
                           IF c.directory THEN c.targetAtCall ELSE parent(c.targetAtCall),
                           c.walkUp).kind = "ok")

\* C9: when several auto-policy relativeTo / isRelativeTo calls are pending
\* at once, on the same or on different instances, then whatever the order
\* in which they resume each call settles with the outcome fixed by its own
\* two operands and its own probe answer, independently of the other calls
\* and of the accessors and transforms applied to its operands meanwhile;
\* a call probes once, when it is made, and suspends only there.
C9_PendingIndependent ==
  \A k \in 1..Len(pending) :
    /\ pending[k].probes = 1
    /\ pending[k].op = "relativeTo" => pending[k].state \in {"suspended", "settled"}
    /\ pending[k].state # "settled" => pending[k].outcome = NoResult
    /\ pending[k].state = "settled" => pending[k].outcome = Expected(pending[k])

\* two calls on the same operands with different probe answers: the later
\* call has settled, the earlier is still suspended and will settle with
\* another outcome, and the receiver was read in between
C9_Witness ==
  /\ Len(pending) = 2
  /\ pending[1].this = pending[2].this
  /\ pending[1].target = pending[2].target
  /\ pending[1].directory # pending[2].directory
  /\ pending[1].state = "suspended"
  /\ pending[2].state = "settled"
  /\ Expected(pending[1]).kind # pending[2].outcome.kind
  /\ heap[pending[1].this] # pending[1].thisAtCall

----------------------------------------------------------------------------
(* SpecParse: one instance built from one string, every string over a      *)
(* small alphabet, then read.                                              *)

MaxParseLen == 7

\* the characters the strings are made of: both separators, a letter, a
\* digit, the colon and the dot; the colon and the digit are left out of
\* the posix strings, where they are ordinary name characters like the letter
ParseAlphabet(p) ==
  IF p = "win32" THEN {BS, FS, "a", "1", COLON, DOT} ELSE {FS, BS, "a", DOT}

ParseInputs(p) == SeqsUpTo(ParseAlphabet(p), MaxParseLen)

\* const p = new P(s)
ParseConstruct ==
  /\ pc = "new"
  /\ \E s \in ParseInputs(parser) :
       /\ segs' = <<s>>
       /\ self' = newPath(parser, <<s>>)
  /\ pc' = "built"
  /\ UNCHANGED <<parser, other, walkUp, result, listing, current, call, heapVars>>

\* p.drive, p.root, p.parts: the first of them runs ensureParsed()
ParseRead ==
  /\ pc = "built"
  /\ self' = ensureParsed(self)
  /\ pc' = "parsed"
  /\ UNCHANGED <<parser, other, segs, walkUp, result, listing, current, call, heapVars>>

ParseNext == ParseConstruct \/ ParseRead

SpecParse == RelInit /\ [][ParseNext]_vars

\* the first index from i on at which n holds a backslash, Len(n) + 1 when
\* there is none
FirstSepFrom(n, i) ==
  IF \E j \in i..Len(n) : n[j] = BS
    THEN CHOOSE j \in i..Len(n) : n[j] = BS /\ \A k \in i..(j - 1) : n[k] # BS
    ELSE Len(n) + 1

\* the maximal runs of characters other than the backslash, in order,
\* without the run that is a single dot
RECURSIVE Fragments(_, _, _)
Fragments(t, i, cur) ==
  IF i > Len(t)
    THEN IF cur = <<>> \/ cur = <<DOT>> THEN <<>> ELSE <<cur>>
  ELSE IF t[i] = BS
    THEN (IF cur = <<>> \/ cur = <<DOT>> THEN <<>> ELSE <<cur>>) \o Fragments(t, i + 1, <<>>)
  ELSE Fragments(t, i + 1, Append(cur, t[i]))

\* two separators, a non-empty host, one separator, a non-empty share
UncShaped(n) ==
  /\ Len(n) >= 5
  /\ n[1] = BS /\ n[2] = BS /\ n[3] # BS
  /\ FirstSepFrom(n, 3) < Len(n)
  /\ n[FirstSepFrom(n, 3) + 1] # BS

\* what the Windows flavour is to read in n, a string without '/'
WindowsReading(n) ==
  IF UncShaped(n)
    THEN LET e == FirstSepFrom(n, FirstSepFrom(n, 3) + 1) - 1 IN
         [drive |-> SubSeq(n, 1, e),
          root |-> IF e < Len(n) THEN <<BS>> ELSE <<>>,
          tail |-> Fragments(SubSeq(n, e + 1, Len(n)), 1, <<>>)]
    ELSE LET d == IF Len(n) >= 2 /\ n[1] \in Letters /\ n[2] = COLON THEN 2 ELSE 0 IN
         [drive |-> SubSeq(n, 1, d),
          root |-> IF Len(n) > d /\ n[d + 1] = BS THEN <<BS>> ELSE <<>>,
          tail |-> Fragments(SubSeq(n, d + 1, Len(n)), 1, <<>>)]

-----------------------------------------------------------------------------
(* SpecName: the name, its suffixes and stem, withName and withSuffix, on  *)
(* paths of both flavours built from one string.                           *)

MaxNameLen == 4

\* what precedes the name in the string handed to the constructor
NamePrefixes(p) ==
  IF p = "win32"
    THEN {<<>>, <<"d", BS>>, <<"c", COLON>>, <<"c", COLON, BS>>, <<BS>>}
    ELSE {<<>>, <<"d", FS>>, <<FS>>}

\* the names: every string of letters and dots up to MaxNameLen and two
\* file names of common shape
Names ==
  SeqsUpTo({"a", "b", DOT}, MaxNameLen)
    \cup {<<"a","r","c","h","i","v","e",DOT,"t","a","r",DOT,"g","z">>,
          <<DOT,"g","i","t","i","g","n","o","r","e">>}

\* the arguments handed to withName and to withSuffix
NameArguments ==
  {<<>>, <<DOT>>, DOTDOT, <<"x">>, <<"x", DOT, "y">>, <<"x", FS, "y">>, <<"x", BS, "y">>}

SuffixArguments ==
  {<<>>, <<DOT>>, <<DOT, "x">>, <<"x">>, <<DOT, "x", DOT, "y">>,
   <<DOT, FS, "x">>, <<DOT, BS, "x">>}

Value(str) == [kind |-> "value", path |-> None, message |-> str]

NameConstruct ==
  /\ pc = "new"
  /\ \E pre \in NamePrefixes(parser), nm \in Names :
       /\ segs' = <<pre \o nm>>
       /\ self' = newPath(parser, <<pre \o nm>>)
  /\ pc' = "built"
  /\ UNCHANGED <<parser, other, walkUp, result, listing, current, call, heapVars>>

GetSuffix ==
  /\ pc = "built"
  /\ result' = Value(suffix(self))
  /\ self' = ensureParsed(self)
  /\ pc' = "suffix"
  /\ UNCHANGED <<parser, other, segs, walkUp, listing, current, call, heapVars>>

GetSuffixesOf ==
  /\ pc = "built"
  /\ listing' = suffixes(self)
  /\ self' = ensureParsed(self)
  /\ pc' = "suffixes"
  /\ UNCHANGED <<parser, other, segs, walkUp, result, current, call, heapVars>>

GetStem ==
  /\ pc = "built"
  /\ result' = Value(stem(self))
  /\ self' = ensureParsed(self)
  /\ pc' = "stem"
  /\ UNCHANGED <<parser, other, segs, walkUp, listing, current, call, heapVars>>

CallWithName ==
  /\ pc = "built"
  /\ \E nm \in NameArguments :
       /\ segs' = Append(segs, nm)
       /\ result' = withName(self, nm)
       /\ self' = afterNaming(self, withName(self, nm), "invalid name")
  /\ pc' = "withName"
  /\ UNCHANGED <<parser, other, walkUp, listing, current, call, heapVars>>

CallWithSuffix ==
  /\ pc = "built"
  /\ \E sfx \in SuffixArguments :
       /\ segs' = Append(segs, sfx)
       /\ result' = withSuffix(self, sfx)
       /\ self' = afterNaming(self, withSuffix(self, sfx), "invalid suffix")
  /\ pc' = "withSuffix"
  /\ UNCHANGED <<parser, other, walkUp, listing, current, call, heapVars>>

NameNext ==
  \/ NameConstruct
  \/ GetSuffix
  \/ GetSuffixesOf
  \/ GetStem
  \/ CallWithName
  \/ CallWithSuffix

SpecName == RelInit /\ [][NameNext]_vars

\* the positions of the dots of t, in increasing order
DotsOf(t) == {i \in 1..Len(t) : t[i] = DOT}
NthDot(t, k) == CHOOSE i \in DotsOf(t) : Cardinality({j \in DotsOf(t) : j < i}) = k - 1

\* nm from its first character that is not a dot
AfterLeadingDots(nm) ==
  IF \A i \in 1..Len(nm) : nm[i] = DOT THEN <<>>
  ELSE SubSeq(nm, (CHOOSE i \in 1..Len(nm) : nm[i] # DOT /\ \A j \in 1..(i - 1) : nm[j] = DOT),
              Len(nm))

\* nm without one leading dot
AfterOneDot(nm) == IF Len(nm) > 0 /\ nm[1] = DOT THEN Tail(nm) ELSE nm

\* C12: the suffix is taken from the name without its whole run of leading
\* dots: empty when no dot remains, else the text from the last dot on; the
\* suffixes are taken from the name without one leading dot: one per dot,
\* each running from its dot up to the next dot or the end; archive.tar.gz
\* has suffix .gz, suffixes .tar and .gz and stem archive.tar, .gitignore
\* has no suffix at all.
C12_Suffixes ==
  LET nm == name(self)
      r == AfterLeadingDots(nm)
      t == AfterOneDot(nm)
      ends == [k \in 1..(Cardinality(DotsOf(t)) + 1) |->
                 IF k > Cardinality(DotsOf(t)) THEN Len(t) + 1 ELSE NthDot(t, k)]
  IN
  /\ pc = "suffix" =>
       result = Value(IF DotsOf(r) = {} THEN <<>>
                      ELSE SubSeq(r, NthDot(r, Cardinality(DotsOf(r))), Len(r)))
  /\ pc = "suffixes" =>
       listing = [k \in 1..Cardinality(DotsOf(t)) |-> SubSeq(t, ends[k], ends[k + 1] - 1)]
  /\ (pc = "suffix" /\ nm = <<"a","r","c","h","i","v","e",DOT,"t","a","r",DOT,"g","z">>) =>
       result = Value(<<DOT, "g", "z">>)
  /\ (pc = "suffixes" /\ nm = <<"a","r","c","h","i","v","e",DOT,"t","a","r",DOT,"g","z">>) =>
       listing = << <<DOT, "t", "a", "r">>, <<DOT, "g", "z">> >>
  /\ (pc = "stem" /\ nm = <<"a","r","c","h","i","v","e",DOT,"t","a","r",DOT,"g","z">>) =>
       result = Value(<<"a","r","c","h","i","v","e",DOT,"t","a","r">>)
  /\ (pc = "suffix" /\ nm = <<DOT,"g","i","t","i","g","n","o","r","e">>) =>
       result = Value(<<>>)
  /\ (pc = "suffixes" /\ nm = <<DOT,"g","i","t","i","g","n","o","r","e">>) =>
       listing = <<>>

\* the suffixes of a name with leading dots and two further dots were read
C12_Witness ==
  /\ pc = "suffixes"
  /\ Len(name(self)) > 2
  /\ name(self)[1] = DOT
  /\ name(self)[2] = DOT
  /\ Len(listing) = 3

\* the suffix of a name with a leading dot and a later dot was read
C12_WitnessSuffix ==
  /\ pc = "suffix"
  /\ Len(name(self)) = 4
  /\ name(self)[1] = DOT
  /\ result = Value(<<DOT, "b">>)

\* C13: withName(n) fails exactly when n is empty, n is '.', n holds the
\* flavour's separator (or '/' under the Windows flavour), or the receiver
\* has an empty tail; otherwise it returns a path of the receiver's flavour
\* with the receiver's drive and root and the receiver's tail with its last
\* component replaced by n.
C13_WithName ==
  pc = "withName" =>
    LET n == segs[2]
        refused == \/ n = <<>>
                   \/ n = <<DOT>>
                   \/ \E i \in 1..Len(n) : n[i] = (IF parser = "win32" THEN BS ELSE FS)
                   \/ parser = "win32" /\ \E i \in 1..Len(n) : n[i] = FS
                   \/ tailParts(self) = <<>>
    IN
    /\ (result.kind # "ok") <=> refused
    /\ result.kind = "ok" =>
         /\ result.path[1].parser = parser
         /\ drive(result.path[1]) = drive(self)
         /\ root(result.path[1]) = root(self)
         /\ Len(tailParts(result.path[1])) = Len(tailParts(self))
         /\ \A i \in 1..Len(tailParts(self)) :
              tailParts(result.path[1])[i] =
                IF i = Len(tailParts(self)) THEN n ELSE tailParts(self)[i]

\* a name replaced below a Windows drive and a directory
C13_Witness ==
  /\ pc = "withName"
  /\ parser = "win32"
  /\ result.kind = "ok"
  /\ drive(self) = <<"c", COLON>>
  /\ root(self) = <<BS>>
  /\ name(result.path[1]) = <<"x", DOT, "y">>
  /\ name(self) # <<"x", DOT, "y">>

\* a name holding '/' refused under the Windows flavour
C13_WitnessRefused ==
  /\ pc = "withName"
  /\ parser = "win32"
  /\ result.kind = "invalid name"
  /\ segs[2] = <<"x", FS, "y">>
  /\ Len(tailParts(self)) > 0

\* withSuffix(s) was refused
SuffixRefused == result.kind # "ok"

\* the path returned by withSuffix(s) is the receiver with the name stem + s
SuffixReplaced ==
  /\ result.path[1].parser = parser
  /\ drive(result.path[1]) = drive(self)
  /\ root(result.path[1]) = root(self)
  /\ Len(tailParts(result.path[1])) = Len(tailParts(self))
  /\ \A i \in 1..(Len(tailParts(self)) - 1) :
       tailParts(result.path[1])[i] = tailParts(self)[i]
  /\ name(result.path[1]) = stem(self) \o segs[2]

\* C14 as stated: withSuffix(s) fails exactly when s is non-empty and does
\* not start with '.', or the receiver's stem is empty, and otherwise
\* returns the receiver with its name replaced by stem + s.
C14_AsStated ==
  pc = "withSuffix" =>
    /\ SuffixRefused <=>
         \/ Len(segs[2]) > 0 /\ segs[2][1] # DOT
         \/ stem(self) = <<>>
    /\ ~ SuffixRefused => SuffixReplaced

\* C14: withSuffix(s) fails exactly when s is non-empty and does not start
\* with '.', or the receiver's stem is empty, or stem + s is a name that
\* withName refuses: it is '.', or it holds the flavour's separator (or '/'
\* under the Windows flavour); otherwise it returns the receiver with its
\* name replaced by stem + s, so withSuffix('') leaves the stem as name.
C14_WithSuffix ==
  pc = "withSuffix" =>
    LET n == stem(self) \o segs[2] IN
    /\ SuffixRefused <=>
         \/ Len(segs[2]) > 0 /\ segs[2][1] # DOT
         \/ stem(self) = <<>>
         \/ n = <<DOT>>
         \/ \E i \in 1..Len(n) : n[i] = (IF parser = "win32" THEN BS ELSE FS)
         \/ parser = "win32" /\ \E i \in 1..Len(n) : n[i] = FS
    /\ ~ SuffixRefused => SuffixReplaced
    /\ (~ SuffixRefused /\ segs[2] = <<>>) => name(result.path[1]) = stem(self)

\* a suffix that starts with a dot and holds the separator was refused
C14_Witness ==
  /\ pc = "withSuffix"
  /\ parser = "posix"
  /\ segs[2] = <<DOT, FS, "x">>
  /\ stem(self) = <<"a">>
  /\ result.kind = "invalid name"

\* withSuffix('') took the suffix off a name
C14_WitnessEmpty ==
  /\ pc = "withSuffix"
  /\ segs[2] = <<>>
  /\ result.kind = "ok"
  /\ name(self) = <<"a", DOT, "b">>
  /\ name(result.path[1]) = <<"a">>

-----------------------------------------------------------------------------
(* SpecMatch: match and fullMatch, with and without the caseSensitive      *)
(* option, on paths and patterns of both flavours.                         *)

LF == "\n"

\* the characters the '.' of a RegExp without the s flag does not match
LineTerminators == {LF, "\r"}

\* escapeRegExp(char) compiled: every syntax character of a RegExp is in
\* the escaped set, so the atom matches that character only
escapeRegExp(ch) == [t |-> "char", c |-> ch]

\* the while loop of globToRegExp over the normalized pattern: the atoms of
\* the expression between '^' and '$'
RECURSIVE globToRegExp(_, _)
globToRegExp(sep, normalized) ==
  IF Len(normalized) = 0 THEN <<>>
  ELSE IF normalized[1] = "*" /\ Len(normalized) >= 2 /\ normalized[2] = "*"
    THEN <<[t |-> ".*", c |-> sep]>> \o globToRegExp(sep, SubSeq(normalized, 3, Len(normalized)))
  ELSE IF normalized[1] = "*"
    THEN <<[t |-> "[^sep]*", c |-> sep]>> \o globToRegExp(sep, Tail(normalized))
  ELSE IF normalized[1] = "?"
    THEN <<[t |-> "[^sep]", c |-> sep]>> \o globToRegExp(sep, Tail(normalized))
  ELSE <<escapeRegExp(normalized[1])>> \o globToRegExp(sep, Tail(normalized))

\* one character against one atom; ignoreCase is the i flag
atomTakes(atom, ch, ignoreCase) ==
  CASE atom.t = "char" -> IF ignoreCase THEN lowerChar(ch) = lowerChar(atom.c) ELSE ch = atom.c
    [] atom.t \in {"[^sep]", "[^sep]*"} -> ch # atom.c
    [] OTHER -> ch \notin LineTerminators

\* RegExp.prototype.test for an expression anchored by '^' and '$': atoms
\* from position 1 on against the whole of subject
RECURSIVE regexTest(_, _, _)
regexTest(atoms, subject, ignoreCase) ==
  IF Len(atoms) = 0 THEN Len(subject) = 0
  ELSE IF atoms[1].t \in {".*", "[^sep]*"}
    THEN \/ regexTest(Tail(atoms), subject, ignoreCase)
         \/ /\ Len(subject) > 0
            /\ atomTakes(atoms[1], subject[1], ignoreCase)
            /\ regexTest(atoms, Tail(subject), ignoreCase)
  ELSE /\ Len(subject) > 0
       /\ atomTakes(atoms[1], subject[1], ignoreCase)
       /\ regexTest(Tail(atoms), Tail(subject), ignoreCase)

\* the first n elements instead of the last
sliceLast_First(arr, n) == IF n >= Len(arr) THEN arr ELSE SubSeq(arr, 1, n)

\* parts.slice(-n): the whole array when n is 0 or exceeds its length
sliceLast(arr, n) ==
  IF n = 0 \/ n >= Len(arr) THEN arr ELSE SubSeq(arr, Len(arr) - n + 1, Len(arr))

\* a default that is case-sensitive in both flavours
chosenOf_Sensitive(p, caseSensitive) ==
  IF IsSome(caseSensitive) THEN caseSensitive[1] ELSE TRUE

\* caseSensitive ?? parser === posixParser
chosenOf(p, caseSensitive) ==
  IF IsSome(caseSensitive) THEN caseSensitive[1] ELSE p = "posix"

\* the subject matchAgainst tests
subjectOf(this, patternPath, full) ==
  IF full THEN toString(this)
  ELSE joinArray(sliceLast(parts(this), Len(parts(patternPath))), <<sepOf(this.parser)>>)

\* matchAgainst(pattern, caseSensitive, full), the pattern being a string
matchAgainst(this, pattern, caseSensitive, full) ==
  regexTest(globToRegExp(sepOf(this.parser),
                         normalizeForParser(this.parser,
                                            toString(withSegments(this, <<pattern>>)))),
            subjectOf(this, withSegments(this, <<pattern>>), full),
            ~ chosenOf(this.parser, caseSensitive))

fullMatch(this, pattern, caseSensitive) == matchAgainst(this, pattern, caseSensitive, TRUE)
match(this, pattern, caseSensitive) == matchAgainst(this, pattern, caseSensitive, FALSE)

MaxMatchTail == 2
MaxPatternLen == 3

MatchAnchors(p) ==
  IF p = "win32" THEN {<<>>, <<"c", COLON>>, <<"C", COLON, FS>>} ELSE {<<>>, <<FS>>}

MatchComponents == {<<"a">>, <<"A">>, <<"[">>, <<"a", LF>>}

\* the receivers: anchors with up to MaxMatchTail components, and two
\* paths of three components
MatchInputs(p) ==
  {a \o joinArray(t, <<FS>>) : a \in MatchAnchors(p), t \in SeqsUpTo(MatchComponents, MaxMatchTail)}
    \cup {<<"a", FS, "b", FS, "c", DOT, "t", "x", "t">>,
          <<"C", COLON, FS, "A", "b", FS, "C", "a">>}

\* the patterns: every string up to MaxPatternLen and some longer ones
Patterns ==
  SeqsUpTo({"*", "?", FS, "a", DOT, "["}, MaxPatternLen)
    \cup {<<"*", DOT, "t", "x", "t">>,
          <<"b", FS, "*", DOT, "t", "x", "t">>,
          <<"a", FS, "*", DOT, "t", "x", "t">>,
          <<"a", "b", FS, "c", "a">>,
          <<"*", "*", FS, "*", "*">>,
          <<"*", FS, "a", FS, "*">>,
          <<"c", COLON, BS, "*", BS, "?">>}

CaseOptions == {None, Some(TRUE), Some(FALSE)}

MatchConstruct ==
  /\ pc = "new"
  /\ \E s \in MatchInputs(parser) :
       /\ segs' = <<s>>
       /\ self' = newPath(parser, <<s>>)
  /\ pc' = "built"
  /\ UNCHANGED <<parser, other, walkUp, result, listing, current, call, heapVars>>

\* this.match(pattern, options)
CallMatch ==
  /\ pc = "built"
  /\ \E pattern \in Patterns, caseSensitive \in CaseOptions :
       /\ call' = [op |-> "match", pattern |-> pattern, caseSensitive |-> caseSensitive]
       /\ result' = Answer(match(self, pattern, caseSensitive))
  /\ self' = ensureParsed(self)
  /\ pc' = "match"
  /\ UNCHANGED <<parser, other, segs, walkUp, listing, current, heapVars>>

\* this.fullMatch(pattern, options)
CallFullMatch ==
  /\ pc = "built"
  /\ \E pattern \in Patterns, caseSensitive \in CaseOptions :
       /\ call' = [op |-> "fullMatch", pattern |-> pattern, caseSensitive |-> caseSensitive]
       /\ result' = Answer(fullMatch(self, pattern, caseSensitive))
  /\ self' = afterToString(self)
  /\ pc' = "fullMatch"
  /\ UNCHANGED <<parser, other, segs, walkUp, listing, current, heapVars>>

MatchNext == MatchConstruct \/ CallMatch \/ CallFullMatch

SpecMatch == RelInit /\ [][MatchNext]_vars

\* whether the comparison of the call ignores case
IgnoresCase == ~ (IF IsSome(call.caseSensitive) THEN call.caseSensitive[1] ELSE parser = "posix")

\* the characters a pattern may write a separator with
IsPatternSep(ch) == ch = FS \/ (parser = "win32" /\ ch = BS)

\* s, from first to last character, read against the glob pattern pat:
\* '**' any characters, '*' and '?' characters other than sep, a separator
\* sep, any other character itself (fold: letters compared without case)
RECURSIVE GlobReads(_, _, _, _)
GlobReads(pat, s, sep, fold) ==
  IF Len(pat) = 0 THEN Len(s) = 0
  ELSE IF pat[1] = "*" /\ Len(pat) >= 2 /\ pat[2] = "*"
    THEN \E k \in 0..Len(s) :
           GlobReads(SubSeq(pat, 3, Len(pat)), SubSeq(s, k + 1, Len(s)), sep, fold)
  ELSE IF pat[1] = "*"
    THEN \E k \in 0..Len(s) :
           /\ \A i \in 1..k : s[i] # sep
           /\ GlobReads(Tail(pat), SubSeq(s, k + 1, Len(s)), sep, fold)
  ELSE /\ Len(s) > 0
       /\ IF pat[1] = "?" THEN s[1] # sep
          ELSE IF IsPatternSep(pat[1]) THEN s[1] = sep
          ELSE IF fold THEN toLowerCase(<<s[1]>>) = toLowerCase(<<pat[1]>>)
          ELSE s[1] = pat[1]
       /\ GlobReads(Tail(pat), Tail(s), sep, fold)

\* a pattern that renders as it is written: no '.' component, no repeated
\* or trailing separator, not empty
RendersAsWritten(pat) ==
  toString(newPath(parser, <<pat>>)) = [i \in 1..Len(pat) |-> IF IsPatternSep(pat[i]) THEN sepOf(parser) ELSE pat[i]]

\* C15: fullMatch(pattern) is true exactly when the whole rendered path,
\* from its first to its last character, matches the pattern read as: '*'
\* not followed by '*' is zero or more characters other than the separator,
\* '**' is zero or more characters of any kind, '?' is one character other
\* than the separator, a separator is the flavour's separator and every
\* other character is itself (for a pattern that renders as it is written).
C15_FullMatch ==
  (pc = "fullMatch" /\ RendersAsWritten(call.pattern)) =>
    (result = Answer(TRUE)) <=>
      GlobReads(call.pattern, toString(self), IF parser = "win32" THEN BS ELSE FS, IgnoresCase)

\* the reading of C15 holds for the patterns that render as they are
\* written on the paths without a line terminator
FullMatchOnPlainInputs ==
  (/\ pc = "fullMatch"
   /\ RendersAsWritten(call.pattern)
   /\ \A i \in 1..Len(segs[1]) : segs[1][i] \notin LineTerminators)
  => ((result = Answer(TRUE)) <=>
        GlobReads(call.pattern, toString(self), IF parser = "win32" THEN BS ELSE FS, IgnoresCase))

\* '**' alone was refused by a path with a line terminator in its name
FullMatchLineTerminator ==
  /\ pc = "fullMatch"
  /\ call.pattern = <<"*", "*">>
  /\ segs[1] = <<"a", LF>>
  /\ result = Answer(FALSE)

\* the components of the pattern of the call and of the receiver
PatternParts == parts(newPath(parser, <<call.pattern>>))
ReceiverParts == parts(self)

\* the pattern of the call is relative and has a component
RelativePattern ==
  /\ anchor(newPath(parser, <<call.pattern>>)) = <<>>
  /\ Len(PatternParts) > 0

\* the components of the pattern match the last components of the
\* receiver one by one
MatchesOneByOne ==
  /\ Len(ReceiverParts) >= Len(PatternParts)
  /\ \A i \in 1..Len(PatternParts) :
       regexTest(globToRegExp(sepOf(parser), PatternParts[i]),
                 ReceiverParts[Len(ReceiverParts) - Len(PatternParts) + i],
                 IgnoresCase)

TestedSlice ==
  joinArray([i \in 1..(IF Len(PatternParts) < Len(ReceiverParts)
                         THEN Len(PatternParts) ELSE Len(ReceiverParts)) |->
               ReceiverParts[i + (IF Len(PatternParts) < Len(ReceiverParts)
                                    THEN Len(ReceiverParts) - Len(PatternParts) ELSE 0)]],
            <<IF parser = "win32" THEN BS ELSE FS>>)

C16_WitnessAnchored ==
  /\ pc = "match"
  /\ Len(ReceiverParts) = 3
  /\ anchor(self) # <<>>
  /\ call.pattern = <<"?", FS, "[">>
  /\ result = Answer(TRUE)

\* C17: match and fullMatch with the pattern '' or '.' return false for
\* every receiver of both flavours.
C17_DegeneratePatterns ==
  (pc \in {"match", "fullMatch"} /\ call.pattern \in {<<>>, <<DOT>>}) =>
    result = Answer(FALSE)

\* they do so in match for every receiver, and in fullMatch for every
\* receiver that has a component
DegenerateOnNamedReceivers ==
  (/\ pc \in {"match", "fullMatch"}
   /\ call.pattern \in {<<>>, <<DOT>>}
   /\ pc = "match" \/ Len(ReceiverParts) > 0)
    => result = Answer(FALSE)

\* fullMatch('.') answered true on the empty path
FullMatchDotOnEmptyPath ==
  /\ pc = "fullMatch"
  /\ call.pattern = <<DOT>>
  /\ segs[1] = <<>>
  /\ result = Answer(TRUE)

\* the answer of the call of the state made with caseSensitive: true, on
\* the receiver and the pattern as given or both in lower case
SensitiveAnswer(lowered) ==
  Answer(matchAgainst(newPath(parser, <<IF lowered THEN toLowerCase(segs[1]) ELSE segs[1]>>),
                      IF lowered THEN toLowerCase(call.pattern) ELSE call.pattern,
                      Some(TRUE), pc = "fullMatch"))

\* C18: without the option match and fullMatch compare with case under the
\* Posix flavour and without case under the Windows flavour, and
\* caseSensitive true or false overrides that in either flavour; the
\* Windows path C:/Ab/Ca matches ab/ca by default and not with
\* caseSensitive: true, and under the Posix flavour it does not match by
\* default.
C18_CaseSensitivity ==
  pc \in {"match", "fullMatch"} =>
    /\ call.caseSensitive = None => result = SensitiveAnswer(parser = "win32")
    /\ call.caseSensitive = Some(TRUE) => result = SensitiveAnswer(FALSE)
    /\ call.caseSensitive = Some(FALSE) => result = SensitiveAnswer(TRUE)
    /\ (/\ pc = "match"
        /\ segs[1] = <<"C", COLON, FS, "A", "b", FS, "C", "a">>
        /\ call.pattern = <<"a", "b", FS, "c", "a">>) =>
         /\ (parser = "win32" /\ call.caseSensitive = None) => result = Answer(TRUE)
         /\ (parser = "win32" /\ call.caseSensitive = Some(TRUE)) => result = Answer(FALSE)
         /\ (parser = "posix" /\ call.caseSensitive = None) => result = Answer(FALSE)

\* the Windows path matched a pattern in another case by default
C18_Witness ==
  /\ pc = "match"
  /\ parser = "win32"
  /\ call.caseSensitive = None
  /\ segs[1] = <<"C", COLON, FS, "A", "b", FS, "C", "a">>
  /\ call.pattern = <<"a", "b", FS, "c", "a">>
  /\ result = Answer(TRUE)

\* caseSensitive: false made a Posix path match a pattern in another case
C18_WitnessOverride ==
  /\ pc = "fullMatch"
  /\ parser = "posix"
  /\ call.caseSensitive = Some(FALSE)
  /\ segs[1] = <<"A">>
  /\ call.pattern = <<"a">>
  /\ result = Answer(TRUE)

-----------------------------------------------------------------------------
(* SpecURI: isAbsolute, asURI and fromURI. pathToFileURL and fileURLToPath *)
(* belong to node:url and follow the platform the program runs on (host)   *)
(* and its working directory (cwd), whatever the flavour of the path.      *)

\* Boolean(this.root) || !!this.drive
isAbsolute(inst) == Len(root(inst)) > 0 \/ Len(drive(inst)) > 0

FileScheme == <<"f", "i", "l", "e", COLON, FS, FS>>

\* the escapes pathToFileURL and the URL parser write for one character of
\* a resolved path; under Windows the URL parser turns '\' into '/'
encodeChar(windows, ch) ==
  CASE ch = "%" -> <<"%", "2", "5">>
    [] ch = BS -> IF windows THEN <<FS>> ELSE <<"%", "5", "C">>
    [] ch = LF -> <<"%", "0", "A">>
    [] ch = "?" -> <<"%", "3", "F">>
    [] ch = "#" -> <<"%", "2", "3">>
    [] ch = " " -> <<"%", "2", "0">>
    [] OTHER -> <<ch>>

encodePathChars(windows, str) ==
  joinArray([i \in 1..Len(str) |-> encodeChar(windows, str[i])], <<>>)

\* the character an escape stands for (the escapes encodeChar writes)
unescape(hi, lo) ==
  CASE hi = "2" /\ lo = "5" -> "%"
    [] hi = "5" /\ lo = "C" -> BS
    [] hi = "0" /\ lo = "A" -> LF
    [] hi = "3" /\ lo = "F" -> "?"
    [] hi = "2" /\ lo = "3" -> "#"
    [] hi = "2" /\ lo = "0" -> " "
    [] OTHER -> "%"

RECURSIVE decodeURIComponent(_)
decodeURIComponent(str) ==
  IF Len(str) = 0 THEN <<>>
  ELSE IF str[1] = "%" /\ Len(str) >= 3
    THEN <<unescape(str[2], str[3])>> \o decodeURIComponent(SubSeq(str, 4, Len(str)))
  ELSE <<str[1]>> \o decodeURIComponent(Tail(str))

\* path.posix.resolve(path) in the working directory cwd
posixResolve(cwd, path) ==
  <<FS>> \o normalizeString("posix",
                            IF Len(path) > 0 /\ path[1] = FS THEN path ELSE cwd \o <<FS>> \o path,
                            FALSE)

\* path.win32.resolve(path) in the working directory cwd (a drive, a root
\* and a tail), given the root of path as win32.normalize matches it; no
\* per-drive working directory is set in the environment
win32Resolved(cwd, path, r) ==
  IF IsSome(r.device) /\ r.isAbsolute
    THEN r.device[1] \o <<BS>> \o normalizeString("win32", sliceFrom(path, r.rootEnd), FALSE)
  ELSE IF IsSome(r.device)
    THEN r.device[1] \o <<BS>>
           \o normalizeString("win32",
                              (IF toLowerCase(SubSeq(cwd, 1, 2)) = toLowerCase(r.device[1])
                                 THEN sliceFrom(cwd, 3) ELSE <<>>)
                                \o <<BS>> \o sliceFrom(path, r.rootEnd),
                              FALSE)
  ELSE IF r.isAbsolute
    THEN SubSeq(cwd, 1, 2) \o <<BS>>
           \o normalizeString("win32", sliceFrom(path, r.rootEnd), FALSE)
  ELSE SubSeq(cwd, 1, 2) \o <<BS>>
         \o normalizeString("win32", sliceFrom(cwd, 3) \o <<BS>> \o path, FALSE)

win32Resolve(cwd, path) ==
  win32Resolved(cwd, path,
                IF Len(path) >= 2 THEN win32Root(path)
                ELSE IF Len(path) = 1 /\ isPathSeparator("win32", path[1])
                  THEN [NoRoot EXCEPT !.isAbsolute = TRUE, !.rootEnd = 1]
                ELSE NoRoot)

\* pathToFileURL: the trailing separator that resolve took away is put back
withTrailing(windows, filepath, resolved) ==
  IF /\ Len(filepath) > 0
     /\ filepath[Len(filepath)] = FS \/ (windows /\ filepath[Len(filepath)] = BS)
     /\ resolved[Len(resolved)] # (IF windows THEN BS ELSE FS)
    THEN resolved \o <<FS>> ELSE resolved

\* pathToFileURL(filepath).toString() for a path that starts with '\\' on a
\* Windows host, paths being filepath.split('\\'): the host name in lower
\* case, the path name without its '.' and '..' segments, a '/' at the end
\* when the last segment is empty or one of them
uncToFileURL(paths) ==
  IF Len(paths) <= 3 THEN Thrown("invalid arg", <<"Missing UNC resource path">>)
  ELSE IF Len(paths[3]) = 0 THEN Thrown("invalid arg", <<"Empty UNC servername">>)
  ELSE [kind |-> "value", path |-> None,
        message |-> FileScheme \o toLowerCase(paths[3]) \o <<FS>>
                      \o encodePathChars(TRUE,
                           normalizeString("posix",
                                           joinArray(SubSeq(paths, 4, Len(paths)), <<FS>>),
                                           FALSE))
                      \o (IF /\ paths[Len(paths)] \in {<<>>, <<DOT>>, DOTDOT}
                             /\ Len(normalizeString("posix",
                                                    joinArray(SubSeq(paths, 4, Len(paths)), <<FS>>),
                                                    FALSE)) > 0
                            THEN <<FS>> ELSE <<>>)]

\* pathToFileURL(filepath).toString()
pathToFileURL(host, cwd, filepath) ==
  IF host = "win32" /\ startsWith(filepath, <<BS, BS>>)
    THEN uncToFileURL(split(filepath, BS))
  ELSE IF host = "win32"
    THEN [kind |-> "value", path |-> None,
          message |-> FileScheme \o <<FS>>
                        \o encodePathChars(TRUE, withTrailing(TRUE, filepath,
                                                              win32Resolve(cwd, filepath)))]
  ELSE [kind |-> "value", path |-> None,
        message |-> FileScheme
                      \o encodePathChars(FALSE, withTrailing(FALSE, filepath,
                                                             posixResolve(cwd, filepath)))]

\* whether the escape of ch occurs in pathname
hasEscape(pathname, hi, lo) ==
  \E i \in 1..(Len(pathname) - 2) :
    pathname[i] = "%" /\ pathname[i + 1] = hi /\ pathname[i + 2] \in lo

\* fileURLToPath for the host name and the path name of a file: URL
urlToPath(host, hostname, pathname) ==
  IF host = "win32" THEN
    IF hasEscape(pathname, "2", {"F", "f"}) \/ hasEscape(pathname, "5", {"C", "c"})
      THEN Thrown("invalid file url path", <<"must not include encoded \\ or / characters">>)
    ELSE IF Len(hostname) > 0
      THEN [kind |-> "value", path |-> None,
            message |-> <<BS, BS>> \o hostname \o decodeURIComponent(replaceChar(pathname, FS, BS))]
    ELSE IF ~ (Len(pathname) >= 3 /\ lowerChar(pathname[2]) \in Lower /\ pathname[3] = COLON)
      THEN Thrown("invalid file url path", <<"must be absolute">>)
    ELSE [kind |-> "value", path |-> None,
          message |-> Tail(decodeURIComponent(replaceChar(pathname, FS, BS)))]
  ELSE
    IF Len(hostname) > 0
      THEN Thrown("invalid file url host", <<"must be localhost or empty">>)
    ELSE IF hasEscape(pathname, "2", {"F", "f"})
      THEN Thrown("invalid file url path", <<"must not include encoded / characters">>)
    ELSE [kind |-> "value", path |-> None, message |-> decodeURIComponent(pathname)]

\* fileURLToPath(uri) for a uri that starts with file://
fileURLToPath(host, uri) ==
  urlToPath(host,
            SubSeq(uri, Len(FileScheme) + 1, Len(FileScheme) + runUntil(sliceFrom(uri, Len(FileScheme)), FS)),
            sliceFrom(uri, Len(FileScheme) + runUntil(sliceFrom(uri, Len(FileScheme)), FS)))

\* asURI() on a host
asURI(host, cwd, inst) ==
  IF ~ isAbsolute(inst)
    THEN Thrown("relative", <<"relative path can't be expressed as a file URI">>)
    ELSE pathToFileURL(host, cwd, toString(inst))

\* PurePath.fromURI(uri): new PurePath(resolved), PurePath having the
\* parser of the host
fromURIOf(host, resolved) ==
  IF resolved.kind = "value" THEN Returned(newPath(host, <<resolved.message>>)) ELSE resolved

fromURI(host, uri) == fromURIOf(host, fileURLToPath(host, uri))

MaxURITail == 2

URIAnchors(p) ==
  IF p = "win32"
    THEN {<<>>, <<BS>>, <<"c", COLON>>, <<"c", COLON, BS>>,
          <<BS, BS, "b", BS, "a", BS>>, <<BS, BS, "B", BS, "a", BS>>}
    ELSE {<<>>, <<FS>>}

URIComponents == {<<"a">>, DOTDOT, <<"a", " ", "%">>}

URIInputs(p) ==
  {a \o joinArray(t, <<sepOf(p)>>) : a \in URIAnchors(p), t \in SeqsUpTo(URIComponents, MaxURITail)}

\* the working directories of the host
Cwds(host) ==
  IF host = "win32" THEN {<<"C", COLON, BS, "w">>, <<"B", COLON, BS>>} ELSE {<<FS>>, <<FS, "w">>}

\* new P(s) in a process on some host, in some working directory
URIConstruct ==
  /\ pc = "new"
  /\ \E s \in URIInputs(parser), host \in Parsers :
       \E cwd \in Cwds(host) :
         /\ segs' = <<s>>
         /\ self' = newPath(parser, <<s>>)
         /\ call' = [op |-> "new", host |-> host, cwd |-> cwd]
  /\ pc' = "built"
  /\ UNCHANGED <<parser, other, walkUp, result, listing, current, heapVars>>

CallIsAbsolute ==
  /\ pc = "built"
  /\ result' = Answer(isAbsolute(self))
  /\ self' = ensureParsed(self)
  /\ pc' = "isAbsolute"
  /\ UNCHANGED <<parser, other, segs, walkUp, listing, current, call, heapVars>>

CallAsURI ==
  /\ pc = "built"
  /\ result' = asURI(call.host, call.cwd, self)
  /\ self' = IF isAbsolute(self) THEN afterToString(self) ELSE ensureParsed(self)
  /\ pc' = "asURI"
  /\ UNCHANGED <<parser, other, segs, walkUp, listing, current, call, heapVars>>

\* PurePath.fromURI(uri), uri being what asURI returned
CallFromURI ==
  /\ pc = "asURI"
  /\ result.kind = "value"
  /\ result' = fromURI(call.host, result.message)
  /\ pc' = "fromURI"
  /\ UNCHANGED <<parser, self, other, segs, walkUp, listing, current, call, heapVars>>

URINext == URIConstruct \/ CallIsAbsolute \/ CallAsURI \/ CallFromURI

SpecURI == RelInit /\ [][URINext]_vars

\* C19: isAbsolute() is true exactly when the path has a root and, under
\* the Windows flavour, also a drive; a Windows path with a drive and no
\* root, or with a root and no drive, is not absolute.
C19_IsAbsolute ==
  pc = "isAbsolute" =>
    ((result = Answer(TRUE)) <=>
       (root(self) # <<>> /\ (parser = "win32" => drive(self) # <<>>)))

\* under the Posix flavour isAbsolute() is true exactly when there is a
\* root, under the Windows flavour exactly when there is a root or a drive
IsAbsoluteByFlavour ==
  pc = "isAbsolute" =>
    ((result = Answer(TRUE)) <=>
       IF parser = "win32" THEN root(self) # <<>> \/ drive(self) # <<>>
       ELSE root(self) # <<>>)

\* isAbsolute() answered true for a Windows path with a drive and no root
DriveWithoutRootIsAbsolute ==
  /\ pc = "isAbsolute"
  /\ parser = "win32"
  /\ drive(self) = <<"c", COLON>>
  /\ root(self) = <<>>
  /\ result = Answer(TRUE)

\* the receiver has a root and, under the Windows flavour, a drive
HasRootAndDrive == root(self) # <<>> /\ (parser = "win32" => drive(self) # <<>>)

\* C20: for every absolute path p, whatever its tail components, '..'
\* included, fromURI(p.asURI()) renders the string p renders (the program
\* running on the platform of p's flavour).
C20_RoundTrip ==
  (pc = "fromURI" /\ call.host = parser /\ HasRootAndDrive) =>
    /\ result.kind = "ok"
    /\ toString(result.path[1]) = toString(self)

\* the round trip holds for the paths without a '..' component whose drive
\* is written in lower case
RoundTripWithoutDotDot ==
  (/\ pc = "fromURI"
   /\ call.host = parser
   /\ HasRootAndDrive
   /\ \A i \in 1..Len(tailParts(self)) : tailParts(self)[i] # DOTDOT
   /\ drive(self) = toLowerCase(drive(self)))
    => /\ result.kind = "ok"
       /\ toString(result.path[1]) = toString(self)

\* asURI() fails exactly when isAbsolute() is false, that is, on the paths
\* with neither drive nor root
AsURIFailsWithoutAnchor ==
  pc = "asURI" =>
    ((result.kind = "relative") <=> (drive(self) = <<>> /\ root(self) = <<>>))

\* /a/.. came back from its URI as /
DotDotLostInRoundTrip ==
  /\ pc = "fromURI"
  /\ parser = "posix"
  /\ call.host = "posix"
  /\ segs[1] = <<FS, "a", FS, ".", ".">>
  /\ result.kind = "ok"
  /\ toString(result.path[1]) = <<FS>>

----------------------------------------------------------------------------
(* The messages of the errors relativeTo raises, as properties of SpecPolicy. *)

\* s occurs in t as a contiguous run
IsInfix(s, t) ==
  \E i \in 0..(Len(t) - Len(s)) : SubSeq(t, i + 1, i + Len(s)) = s

\* a relativeTo call has delivered one of its two errors
RaisedByRelativeTo ==
  /\ pc \in {"returned", "settled"}
  /\ call.op = "relativeTo"
  /\ result.kind \in {AnchorMismatch, NotASubpath}

\* the call computed against other.dropSegments(1) rather than other
ComputedAgainstParent ==
  \/ policyOf(call.policy) = "parent"
  \/ policyOf(call.policy) = "auto" /\ ~ call.directory

\* C21 as stated: every error raised by relativeTo, under each policy,
\* carries a message that contains the rendered string of the receiver and
\* the rendered string of the operand other of that call.
C21_AsStated ==
  RaisedByRelativeTo =>
    /\ IsInfix(toString(self), result.message)
    /\ IsInfix(toString(other), result.message)

\* C21: every error raised by relativeTo carries a message that contains the
\* rendered string of the receiver and the rendered string of the base the
\* lexical computation ran against: other itself under 'exact' and under
\* 'auto' when the probe found a directory, other.dropSegments(1) under
\* 'parent' and under 'auto' otherwise.
C21_Messages ==
  RaisedByRelativeTo =>
    /\ IsInfix(toString(self), result.message)
    /\ IsInfix(toString(IF ComputedAgainstParent THEN dropSegments(other, 1) ELSE other),
               result.message)

\* an error under 'parent' whose message names the parent and not other
C21_Witness ==
  /\ RaisedByRelativeTo
  /\ call.policy = Some("parent")
  /\ result.kind = NotASubpath
  /\ ~ IsInfix(toString(other), result.message)

\* an error delivered through the promise of an 'auto' call, naming other
C21_WitnessAuto ==
  /\ RaisedByRelativeTo
  /\ policyOf(call.policy) = "auto"
  /\ call.directory
  /\ result.kind = AnchorMismatch
  /\ IsInfix(toString(other), result.message)

----------------------------------------------------------------------------
(* match against an absolute pattern, as a property of SpecMatch.          *)

\* the pattern of the call has a root or a drive
AbsolutePattern == isAbsolute(newPath(parser, <<call.pattern>>))

\* the pattern of the call holds no '**'
WithoutDoubleStar ==
  \A i \in 1..(Len(call.pattern) - 1) :
    ~ (call.pattern[i] = "*" /\ call.pattern[i + 1] = "*")

\* C24: when the pattern is absolute (has a root or a drive), match(pattern)
\* tests the entire path: for every pattern without '**' it answers what
\* fullMatch(pattern) answers, so an absolute path without '*' or '?'
\* matches its own rendered string.
C24_MatchAbsolute ==
  (pc = "match" /\ AbsolutePattern /\ WithoutDoubleStar) =>
    result = Answer(fullMatch(self, call.pattern, call.caseSensitive))

----------------------------------------------------------------------------
(* stem and suffix against name, as a property of SpecName.                *)

\* C28: for every path of either flavour, stem followed by suffix is the
\* name, also for names that start with dots, the name '..' and names that
\* end with a dot.
C28_StemPlusSuffix ==
  /\ pc = "stem" => result.message \o suffix(self) = name(self)
  /\ pc = "suffix" => stem(self) \o result.message = name(self)

\* the names on which stem followed by suffix is the name: all but those
\* that start with two or more dots and hold no later dot
StemPlusSuffixElsewhere ==
  (/\ pc \in {"stem", "suffix"}
   /\ ~ (/\ Len(name(self)) >= 2
         /\ name(self)[1] = DOT
         /\ name(self)[2] = DOT
         /\ \A i \in 1..Len(name(self)) :
              name(self)[i] = DOT => \A j \in 1..i : name(self)[j] = DOT))
    => stem(self) \o suffix(self) = name(self)

----------------------------------------------------------------------------
(* SpecChain: a path value built by the constructor and then transformed    *)
(* by a bounded sequence of parent, dropSegments, joinpath, withName,       *)
(* withSuffix, withStem, relativeTo and expandUserSync; self is the value   *)
(* the last call returned, or the receiver when the call threw.             *)

TILDE == "~"

\* the characters of [\w-] among those the inputs are written in
WordChars == Letters \cup {"_", "-"}

\* the index of the last character of the run of [\w-] that starts at i
RECURSIVE wordRun(_, _)
wordRun(s, i) ==
  IF i <= Len(s) /\ s[i] \in WordChars THEN wordRun(s, i + 1) ELSE i - 1

\* first.replace(/^~[\w-]*/, home), first starting with '~'
expandFirst(first, home) == home \o SubSeq(first, wordRun(first, 2) + 1, Len(first))

\* expandUserSync() on a parsed instance, home being nodeos.homedir()
expandUserSyncOf(q, home) ==
  IF /\ Len(driveOf(q)) = 0
     /\ Len(rootOf(q)) = 0
     /\ Len(tailOf_(q)) > 0
     /\ tailOf_(q)[1][1] = TILDE
    THEN IF Len(home) = 0
           THEN Thrown("no home", <<"Could not determine home directory">>)
           ELSE Returned(cloneFromParts(q, <<>>, <<>>,
                           <<expandFirst(tailOf_(q)[1], home)>> \o Tail(tailOf_(q))))
    ELSE Returned(q)

expandUserSync(inst, home) == expandUserSyncOf(ensureParsed(inst), home)

MaxChain == 2

ChainInputs(p) ==
  {<<>>, <<"a">>, <<"a", FS, "b">>, <<FS, "a">>, DOTDOT,
   <<TILDE>>, <<TILDE, FS, "a">>, <<TILDE, "b", DOT, "a">>}
    \cup (IF p = "win32" THEN {<<"c", COLON, BS, "a">>, <<"c", COLON, "a">>} ELSE {})

\* what nodeos.homedir() returns
Homes(p) == IF p = "win32" THEN {<<"C", COLON, BS, "h">>, <<>>} ELSE {<<FS, "h">>, <<>>}

ChainNames == {<<"b">>, <<"b", DOT, "a">>, <<"c", COLON>>, <<"a", BS, "b">>, <<>>}
ChainSuffixes == {<<>>, <<DOT, "b">>}
ChainSegments == {<<"b">>, DOTDOT, <<FS, "b">>}
ChainDrops == {0, 1, 2}

\* the value the chain continues with after a call returned or threw res
continueWith(touched, res) == IF res.kind = "ok" THEN res.path[1] ELSE touched

\* the call record after one more step of the chain
stepOf(c, op) == [op |-> op, depth |-> c.depth + 1, ops |-> c.ops \cup {op}]

\* the chain may take one more step
MayStep == pc = "value" /\ call.depth < MaxChain

ChainConstruct ==
  /\ pc = "new"
  /\ \E s \in ChainInputs(parser) :
       /\ segs' = <<s>>
       /\ self' = newPath(parser, <<s>>)
  /\ call' = [op |-> "new", depth |-> 0, ops |-> {}]
  /\ pc' = "value"
  /\ UNCHANGED <<parser, other, walkUp, result, listing, current, heapVars>>

ChainParent ==
  /\ MayStep
  /\ result' = Returned(parent(self))
  /\ self' = parent(self)
  /\ call' = stepOf(call, "parent")
  /\ UNCHANGED <<pc, parser, other, segs, walkUp, listing, current, heapVars>>

ChainDropSegments ==
  /\ MayStep
  /\ \E n \in ChainDrops :
       /\ result' = Returned(dropSegments(self, n))
       /\ self' = dropSegments(self, n)
  /\ call' = stepOf(call, "dropSegments")
  /\ UNCHANGED <<pc, parser, other, segs, walkUp, listing, current, heapVars>>

ChainJoinpath ==
  /\ MayStep
  /\ \E s \in ChainSegments :
       /\ result' = Returned(joinpath(self, <<s>>))
       /\ self' = joinpath(self, <<s>>)
  /\ call' = stepOf(call, "joinpath")
  /\ UNCHANGED <<pc, parser, other, segs, walkUp, listing, current, heapVars>>

ChainWithName ==
  /\ MayStep
  /\ \E nm \in ChainNames :
       /\ result' = withName(self, nm)
       /\ self' = continueWith(afterNaming(self, withName(self, nm), "invalid name"),
                               withName(self, nm))
  /\ call' = stepOf(call, "withName")
  /\ UNCHANGED <<pc, parser, other, segs, walkUp, listing, current, heapVars>>

ChainWithSuffix ==
  /\ MayStep
  /\ \E sfx \in ChainSuffixes :
       /\ result' = withSuffix(self, sfx)
       /\ self' = continueWith(afterNaming(self, withSuffix(self, sfx), "invalid suffix"),
                               withSuffix(self, sfx))
  /\ call' = stepOf(call, "withSuffix")
  /\ UNCHANGED <<pc, parser, other, segs, walkUp, listing, current, heapVars>>

ChainWithStem ==
  /\ MayStep
  /\ \E st \in ChainNames :
       /\ result' = withStem(self, st)
       /\ self' = continueWith(afterNaming(self, withStem(self, st), "none"),
                               withStem(self, st))
  /\ call' = stepOf(call, "withStem")
  /\ UNCHANGED <<pc, parser, other, segs, walkUp, listing, current, heapVars>>

ChainRelativeTo ==
  /\ MayStep
  /\ \E o \in ChainInputs(parser), w \in WalkUpOptions :
       /\ other' = relativeToTouch(newPath(parser, <<o>>),
                                   relativeTo(self, newPath(parser, <<o>>), w))
       /\ walkUp' = w
       /\ result' = relativeTo(self, newPath(parser, <<o>>), w)
       /\ self' = continueWith(relativeToTouch(self, relativeTo(self, newPath(parser, <<o>>), w)),
                               relativeTo(self, newPath(parser, <<o>>), w))
  /\ call' = stepOf(call, "relativeTo")
  /\ UNCHANGED <<pc, parser, segs, listing, current, heapVars>>

ChainExpandUserSync ==
  /\ MayStep
  /\ \E home \in Homes(parser) :
       /\ result' = expandUserSync(self, home)
       /\ self' = continueWith(ensureParsed(self), expandUserSync(self, home))
  /\ call' = stepOf(call, "expandUserSync")
  /\ UNCHANGED <<pc, parser, other, segs, walkUp, listing, current, heapVars>>

ChainNext ==
  \/ ChainConstruct
  \/ ChainParent
  \/ ChainDropSegments
  \/ ChainJoinpath
  \/ ChainWithName
  \/ ChainWithSuffix
  \/ ChainWithStem
  \/ ChainRelativeTo
  \/ ChainExpandUserSync

SpecChain == RelInit /\ [][ChainNext]_vars

\* ch separates components in the flavour of the model
SeparatesComponents(ch) == ch = sepOf(parser) \/ (parser = "win32" /\ ch = FS)

\* C29: for every path value reachable by construction followed by any
\* sequence of parent, dropSegments, joinpath, withName, withSuffix,
\* withStem, relativeTo and expandUserSync, the drive, root and tail the
\* instance reports are those obtained by parsing its rendered string again,
\* and every tail component is non-empty, is not '.', and holds no separator.
C29_Reparse ==
  pc = "value" =>
    /\ parsePathString(parser, toString(self))
         = [drive |-> drive(self), root |-> root(self), tail |-> tailParts(self)]
    /\ \A i \in 1..Len(tailParts(self)) :
         /\ Len(tailParts(self)[i]) > 0
         /\ tailParts(self)[i] # <<DOT>>
         /\ \A j \in 1..Len(tailParts(self)[i]) :
              ~ SeparatesComponents(tailParts(self)[i][j])

\* what C29 asks of the value self
ReparsesAsReported ==
  /\ parsePathString(parser, toString(self))
       = [drive |-> drive(self), root |-> root(self), tail |-> tailParts(self)]
  /\ \A i \in 1..Len(tailParts(self)) :
       /\ Len(tailParts(self)[i]) > 0
       /\ tailParts(self)[i] # <<DOT>>
       /\ \A j \in 1..Len(tailParts(self)[i]) :
            ~ SeparatesComponents(tailParts(self)[i][j])

\* the chains without expandUserSync and without a renaming call keep the
\* property in both flavours
ReparseWithoutExpandAndNaming ==
  (/\ pc = "value"
   /\ call.ops \cap {"expandUserSync", "withName", "withStem", "withSuffix"} = {})
    => ReparsesAsReported

\* under the Posix flavour the chains without expandUserSync keep it
ReparseWithoutExpandPosix ==
  (pc = "value" /\ parser = "posix" /\ "expandUserSync" \notin call.ops)
    => ReparsesAsReported

----------------------------------------------------------------------------
(* SpecRejoin: other.joinpath(p.relativeTo(other, {walkUp})).               *)

\* o.joinpath(p.relativeTo(o, {walkUp})): the relative path is built first
\* and handed to joinpath, whose constructor renders it
CallRejoin ==
  /\ pc = "call"
  /\ \E w \in WalkUpOptions :
       /\ walkUp' = w
       /\ call' = [op |-> "rejoin", relative |-> relativeTo(self, other, w)]
       /\ result' = IF relativeTo(self, other, w).kind = "ok"
                      THEN Returned(joinpath(other, <<toString(relativeTo(self, other, w).path[1])>>))
                      ELSE relativeTo(self, other, w)
       /\ self' = relativeToTouch(self, relativeTo(self, other, w))
       /\ other' = afterToString(other)
  /\ pc' = "rejoined"
  /\ UNCHANGED <<parser, segs, listing, current, heapVars>>

RejoinNext == RelConstructSelf \/ RelConstructOther \/ CallRejoin

SpecRejoin == RelInit /\ [][RejoinNext]_vars

\* the tail of inst holds no '..'
WithoutDotDot(inst) == \A i \in 1..Len(tailParts(inst)) : tailParts(inst)[i] # DOTDOT

\* self and other have the same anchor under the case folding of the
\* flavour and hold no '..'
RejoinOperands ==
  /\ normalizeCase(parser, anchor(self)) = normalizeCase(parser, anchor(other))
  /\ WithoutDotDot(self)
  /\ WithoutDotDot(other)

C30_WitnessFolded ==
  /\ pc = "rejoined"
  /\ RejoinOperands
  /\ parser = "win32"
  /\ result.kind = "ok"
  /\ toString(result.path[1]) # toString(self)

----------------------------------------------------------------------------
(* SpecFs: the concrete operations unlink, mkdir and isDir, in their Sync   *)
(* and promise-returning variants, on one path of a filesystem that other   *)
(* tasks may change whenever the caller is not running.                     *)

\* what the disk holds at the path, and whether its parent directory
\* refuses modification
DiskKinds == {"missing", "file", "dir"}
Disks == [kind : DiskKinds, denied : BOOLEAN]

\* the error a filesystem call raises, and a call that returns nothing
ErrnoException(code, syscall) == Thrown(code, <<syscall>>)
ReturnedVoid == [kind |-> "returned", path |-> None, message |-> <<>>]

\* what a Sync method did: what it threw or returned, what the filesystem
\* call inside it raised, the disk it left and the filesystem calls it made
Outcome(res, raised, d, n) == [result |-> res, raised |-> raised, disk |-> d, fsCalls |-> n]

\* a filesystem call that raises err and leaves the disk as it is
raise(err, d) == Outcome(err, Some(err), d, 1)

\* fs.unlinkSync(path)
fsUnlinkSync(d) ==
  IF d.kind = "missing" THEN raise(ErrnoException("ENOENT", "unlink"), d)
  ELSE IF d.denied THEN raise(ErrnoException("EACCES", "unlink"), d)
  ELSE IF d.kind = "dir" THEN raise(ErrnoException("EISDIR", "unlink"), d)
  ELSE Outcome(ReturnedVoid, None, [d EXCEPT !.kind = "missing"], 1)

\* fs.mkdirSync(path, {recursive})
fsMkdirSync(d, recursive) ==
  IF d.kind = "dir" /\ recursive THEN Outcome(ReturnedVoid, None, d, 1)
  ELSE IF d.kind # "missing" THEN raise(ErrnoException("EEXIST", "mkdir"), d)
  ELSE IF d.denied THEN raise(ErrnoException("EACCES", "mkdir"), d)
  ELSE Outcome(ReturnedVoid, None, [d EXCEPT !.kind = "dir"], 1)

\* a catch block that rethrows whatever the option is
rethrowUnless_Always(out, option, code) == out

\* the catch block shared by unlinkSync and mkdirSync: the error is thrown
\* again unless the option is truthy and the code is the tolerated one
rethrowUnless(out, option, code) ==
  IF IsSome(out.raised) /\ truthy(option) /\ out.raised[1].kind = code
    THEN [out EXCEPT !.result = ReturnedVoid]
    ELSE out

\* Path.unlinkSync(options)
unlinkSync(d, options) == rethrowUnless(fsUnlinkSync(d), options.missingOk, "ENOENT")

\* Path.mkdirSync(options): parents ?? false, existOk ?? false
mkdirSync(d, options) ==
  rethrowUnless(fsMkdirSync(d, truthy(options.parents)), options.existOk, "EEXIST")

\* Path.isDirSync(options) with the filesystem call it makes
isDirSyncOn(d, options) ==
  Outcome(Answer(isDirSync(d.kind, followOf(options.followSymlinks))),
          IF d.kind = "missing"
            THEN Some(ErrnoException("ENOENT",
                        IF followOf(options.followSymlinks) THEN "stat" ELSE "lstat"))
            ELSE None,
          d, 1)

\* the factories handed to toPromise: () => this.unlinkSync(options),
\* () => this.mkdirSync(options), () => this.isDirSync(options)
factory(f, d) ==
  IF f.op = "unlink" THEN unlinkSync(d, f.options)
  ELSE IF f.op = "mkdir" THEN mkdirSync(d, f.options)
  ELSE isDirSyncOn(d, f.options)

\* a promise, and what the call that made it left behind
Promised(state, settledWith, out, runs) ==
  [promise |-> [state |-> state, settledWith |-> settledWith],
   threw |-> FALSE, raised |-> out.raised, disk |-> out.disk,
   fsCalls |-> out.fsCalls, runs |-> runs]

\* the promise for an outcome: Promise.resolve(value) or Promise.reject(error)
settled(out) ==
  Promised(IF out.result.kind \in {"returned", "true", "false"} THEN "fulfilled" ELSE "rejected",
           out.result, out, 1)

\* a wrapper that leaves the factory for a later task
toPromise_Deferred(f, d) ==
  Promised("pending", NoResult, Outcome(NoResult, None, d, 0), 0)

\* toPromise(factory): try { return Promise.resolve(factory()) }
\* catch (error) { return Promise.reject(error) }
toPromise(f, d) == settled(factory(f, d))

FsInputs(p) == {<<"a">>, <<FS, "a", FS, "b">>} \cup (IF p = "win32" THEN {<<"c", COLON, BS, "a">>} ELSE {})

Tolerances == {None, Some(TRUE), Some(FALSE)}

\* the calls: the method and the options object handed to it
Factories ==
  {[op |-> "unlink", options |-> [missingOk |-> m]] : m \in Tolerances}
    \cup {[op |-> "mkdir", options |-> [parents |-> p, existOk |-> e]] :
            p \in Tolerances, e \in Tolerances}
    \cup {[op |-> "isDir", options |-> [followSymlinks |-> f]] : f \in FollowOptions}

\* the promise the caller holds
PromiseReturned == [kind |-> "promise", path |-> None, message |-> <<>>]

FsConstruct ==
  /\ pc = "new"
  /\ \E s \in FsInputs(parser) : self' = newPath(parser, <<s>>)
  /\ disk' \in Disks
  /\ pc' = "ready"
  /\ UNCHANGED <<parser, other, segs, walkUp, result, listing, current, call, heap, held, pending>>

\* another task, or another process, changes the disk
OtherTask ==
  /\ pc \in {"ready", "promised"}
  /\ disk' \in Disks \ {disk}
  /\ UNCHANGED <<pc, parser, self, other, segs, walkUp, result, listing, current, call,
                 heap, held, pending>>

\* p.unlinkSync(options), p.mkdirSync(options), p.isDirSync(options)
CallSync ==
  /\ pc = "ready"
  /\ \E f \in Factories :
       /\ call' = [factory |-> f, async |-> FALSE, diskBefore |-> disk,
                   diskAfter |-> factory(f, disk).disk,
                   raised |-> factory(f, disk).raised,
                   fsCalls |-> factory(f, disk).fsCalls,
                   runs |-> 1, promise |-> [state |-> "none", settledWith |-> NoResult]]
       /\ result' = factory(f, disk).result
       /\ disk' = factory(f, disk).disk
  /\ self' = afterToString(self)
  /\ pc' = "done"
  /\ UNCHANGED <<parser, other, segs, walkUp, listing, current, heap, held, pending>>

\* p.unlink(options), p.mkdir(options), p.isDir(options): the call returns
\* the promise toPromise made
CallAsync ==
  /\ pc = "ready"
  /\ \E f \in Factories :
       /\ call' = [factory |-> f, async |-> TRUE, diskBefore |-> disk,
                   diskAfter |-> toPromise(f, disk).disk,
                   raised |-> toPromise(f, disk).raised,
                   fsCalls |-> toPromise(f, disk).fsCalls,
                   runs |-> toPromise(f, disk).runs,
                   promise |-> toPromise(f, disk).promise]
       /\ result' = PromiseReturned
       /\ disk' = toPromise(f, disk).disk
  /\ self' = afterToString(self)
  /\ pc' = "promised"
  /\ UNCHANGED <<parser, other, segs, walkUp, listing, current, heap, held, pending>>

\* the caller awaits the promise: a later task delivers what it settled with
Await ==
  /\ pc = "promised"
  /\ call.promise.state # "pending"
  /\ result' = call.promise.settledWith
  /\ pc' = "done"
  /\ UNCHANGED <<parser, self, other, segs, walkUp, listing, current, call, heapVars>>

FsNext == FsConstruct \/ OtherTask \/ CallSync \/ CallAsync \/ Await

SpecFs == RelInit /\ [][FsNext]_vars

\* the caller asked for the error the filesystem raised to be tolerated
Tolerated ==
  /\ IsSome(call.raised)
  /\ \/ /\ call.factory.op = "unlink"
        /\ truthy(call.factory.options.missingOk)
        /\ call.raised[1].kind = "ENOENT"
     \/ /\ call.factory.op = "mkdir"
        /\ truthy(call.factory.options.existOk)
        /\ call.raised[1].kind = "EEXIST"

\* the error the filesystem raised is what the caller got: thrown by the
\* Sync variant, the rejection of the promise of the other
ReachedCaller ==
  /\ result = call.raised[1]
  /\ call.async => call.promise = [state |-> "rejected", settledWith |-> call.raised[1]]

C22_WitnessOtherError ==
  /\ pc = "done"
  /\ ~ call.async
  /\ call.factory.op = "mkdir"
  /\ call.factory.options.existOk = Some(TRUE)
  /\ result.kind = "EACCES"

\* unlink({missingOk: true}) on a missing path returns normally
C22_WitnessTolerated ==
  /\ pc = "done"
  /\ Tolerated
  /\ call.factory.op = "unlink"
  /\ result = ReturnedVoid

\* C25: toPromise(factory) calls factory exactly once, before it returns;
\* it returns a promise fulfilled with what factory returned or rejected
\* with the very error factory threw, and never throws itself; so the whole
\* effect of an async method built on it has taken place when the call
\* returns its promise, computed on the disk as it was at the call, with no
\* step of another task in between.
C25_ToPromise ==
  (pc \in {"promised", "done"} /\ call.async) =>
    /\ call.runs = 1
    /\ call.fsCalls = 1
    /\ call.diskAfter = factory(call.factory, call.diskBefore).disk
    /\ call.promise.settledWith = factory(call.factory, call.diskBefore).result
    /\ call.promise.state =
         (IF factory(call.factory, call.diskBefore).result.kind \in {"returned", "true", "false"}
            THEN "fulfilled" ELSE "rejected")
    /\ pc = "promised" => result = PromiseReturned
    /\ pc = "done" => result = factory(call.factory, call.diskBefore).result

\* mkdir() has created the directory when the promise is returned, and
\* another task has already removed it again before the caller awaits
C25_Witness ==
  /\ pc = "promised"
  /\ call.factory.op = "mkdir"
  /\ call.diskBefore.kind = "missing"
  /\ call.diskAfter.kind = "dir"
  /\ call.promise.state = "fulfilled"
  /\ disk.kind = "missing"

\* a promise rejected with the error the factory threw
C25_WitnessRejected ==
  /\ pc = "promised"
  /\ call.promise.state = "rejected"
  /\ call.promise.settledWith = ErrnoException("EISDIR", "unlink")

----------------------------------------------------------------------------
(* SpecHost: the directory listings and globs of Path on hosts that lack    *)
(* fs.globSync, fs.Dirent, fs.promises.readdir, fs.promises.opendir or      *)
(* fs.opendirSync. A stream is modelled as consumed to its end by the       *)
(* caller; the children carry no infoCache in the model.                    *)

\* the functions the runtime provides
Hosts == [globSync : BOOLEAN, Dirent : BOOLEAN, promisesReaddir : BOOLEAN,
          opendir : BOOLEAN, opendirSync : BOOLEAN]

\* the directory at the path: missing, empty, or holding two entries
HostDisks ==
  {[kind |-> "missing", names |-> <<>>],
   [kind |-> "dir", names |-> <<>>],
   [kind |-> "dir", names |-> <<<<"x">>, <<"y", DOT, "a">>>>]}

\* what a listing call gave: its kind ("paths", "dirents" or the error it
\* failed with), the items it returned or yielded, the directory reads made
Listed(kind, items, reads) == [kind |-> kind, items |-> items, reads |-> reads]

\* throw new UnsupportedOperation(...)
Unsupported == Listed("UnsupportedOperation", <<>>, 0)

\* Path.hasDirentSupport(): typeof fs.Dirent === "function"
hasDirentSupport(host) == host.Dirent

\* a check that lets every host pass
ensureDirentSupport_Lenient(host) == FALSE

\* Path.ensureDirentSupport() throws
ensureDirentSupport(host) == ~ hasDirentSupport(host)

\* createChildFromDirent(entry, parentPath) and
\* createChildFromDirname(dirname, parentPath)
createChildFromDirent(this, entryName, parentPath) ==
  withSegments(this, <<IF parentPath = <<DOT>> THEN entryName
                       ELSE parserJoin(this.parser, <<parentPath, entryName>>)>>)

createChildFromDirname(this, dirname, parentPath) ==
  withSegments(this, <<IF parentPath = <<DOT>> THEN dirname
                       ELSE parserJoin(this.parser, <<parentPath, dirname>>)>>)

\* fs.readdirSync(root, {withFileTypes: true}) and fs.readdirSync(root), and
\* the same reads through fs.promises, opendir and opendirSync
readDirents(d) ==
  IF d.kind = "missing" THEN Listed("ENOENT", <<>>, 1)
  ELSE Listed("dirents", [i \in 1..Len(d.names) |-> [name |-> d.names[i]]], 1)

\* entries.map((entry) => this.createChildFromDirent(entry, root))
childrenFromDirents(this, d) ==
  IF d.kind = "missing" THEN Listed("ENOENT", <<>>, 1)
  ELSE Listed("paths",
              [i \in 1..Len(d.names) |-> createChildFromDirent(this, d.names[i], toString(this))], 1)

\* dirnames.map((dirname) => this.createChildFromDirname(dirname, root))
childrenFromDirnames(this, d) ==
  IF d.kind = "missing" THEN Listed("ENOENT", <<>>, 1)
  ELSE Listed("paths",
              [i \in 1..Len(d.names) |-> createChildFromDirname(this, d.names[i], toString(this))], 1)

\* Path.iterdirSync(options)
iterdirSync(this, host, d, withFileTypes) ==
  IF withFileTypes
    THEN IF ensureDirentSupport(host) THEN Unsupported ELSE readDirents(d)
  ELSE IF hasDirentSupport(host) THEN childrenFromDirents(this, d)
  ELSE childrenFromDirnames(this, d)

\* Path.iterdir(options): the promise settles with what is listed here
iterdir(this, host, d, withFileTypes) ==
  IF ~ host.promisesReaddir
    THEN IF withFileTypes
           THEN IF ensureDirentSupport(host) THEN Unsupported ELSE readDirents(d)
         ELSE IF hasDirentSupport(host) THEN childrenFromDirents(this, d)
         ELSE childrenFromDirnames(this, d)
  ELSE IF withFileTypes
    THEN IF ensureDirentSupport(host) THEN Unsupported ELSE readDirents(d)
  ELSE IF hasDirentSupport(host) THEN childrenFromDirents(this, d)
  ELSE childrenFromDirnames(this, d)

\* Path.iterdirStreamSync(options), consumed to its end
iterdirStreamSync(this, host, d, withFileTypes) ==
  IF withFileTypes /\ ensureDirentSupport(host) THEN Unsupported
  ELSE IF host.opendirSync
    THEN IF withFileTypes THEN readDirents(d)
         ELSE IF hasDirentSupport(host) THEN childrenFromDirents(this, d)
         ELSE childrenFromDirnames(this, d)
  ELSE IF withFileTypes
    THEN IF ensureDirentSupport(host) THEN Unsupported ELSE readDirents(d)
  ELSE IF hasDirentSupport(host) THEN childrenFromDirents(this, d)
  ELSE childrenFromDirnames(this, d)

\* Path.iterdirStream(options), consumed to its end
iterdirStream(this, host, d, withFileTypes) ==
  IF withFileTypes /\ ensureDirentSupport(host) THEN Unsupported
  ELSE IF ~ host.promisesReaddir THEN iterdirStreamSync(this, host, d, withFileTypes)
  ELSE IF withFileTypes THEN readDirents(d)
  ELSE IF hasDirentSupport(host) THEN childrenFromDirents(this, d)
  ELSE childrenFromDirnames(this, d)

\* the index of the first '*' of s, Len(s) + 1 when it holds none
RECURSIVE firstStar(_, _)
firstStar(s, i) == IF i > Len(s) \/ s[i] = "*" THEN i ELSE firstStar(s, i + 1)

\* fs.globSync(targetPattern, {withFileTypes: false}) for a pattern that
\* ends in '*' or '**/*' on a directory without subdirectories
fsGlobSync(targetPattern, d) ==
  [i \in 1..Len(d.names) |->
     SubSeq(targetPattern, 1, firstStar(targetPattern, 1) - 1) \o d.names[i]]

\* matches.map((match) => this.withSegments(match))
globMatches(this, matches) ==
  Listed("paths", [i \in 1..Len(matches) |-> withSegments(this, <<matches[i]>>)], 1)

\* Path.globSyncInternal(pattern, options)
globSyncInternal(this, host, d, pattern) ==
  IF ~ host.globSync THEN Unsupported
  ELSE globMatches(this,
                   fsGlobSync(parserJoin(this.parser,
                                         <<toString(this), normalizeForParser(this.parser, pattern)>>),
                              d))

\* Path.globSync, Path.glob, Path.rglobSync, Path.rglob
globSync(this, host, d, pattern) == globSyncInternal(this, host, d, pattern)
glob(this, host, d, pattern) == globSyncInternal(this, host, d, pattern)
rglobSync(this, host, d, pattern) ==
  globSync(this, host, d,
           parserJoin(this.parser, <<<<"*", "*">>, normalizeForParser(this.parser, pattern)>>))
rglob(this, host, d, pattern) == rglobSync(this, host, d, pattern)

HostInputs(p) == {<<>>, <<"a">>} \cup (IF p = "win32" THEN {<<"c", COLON, BS, "a">>} ELSE {<<FS, "a">>})
GlobPatterns == {<<"*">>, <<"*", DOT, "a">>}
FileTypeOptions == {None, Some(TRUE), Some(FALSE)}

\* options?.extra?.withFileTypes === true
wantsFileTypes(opt) == opt = Some(TRUE)

HostConstruct ==
  /\ pc = "new"
  /\ \E s \in HostInputs(parser) : self' = newPath(parser, <<s>>)
  /\ \E h \in Hosts : call' = [op |-> "new", host |-> h, withFileTypes |-> None, async |-> FALSE]
  /\ disk' \in HostDisks
  /\ pc' = "ready"
  /\ UNCHANGED <<parser, other, segs, walkUp, result, listing, current, heap, held, pending>>

\* the call op has given res to its caller: thrown or returned by a Sync
\* method, raised or yielded by a stream, settled in a promise otherwise
Deliver(op, async, opt, res) ==
  /\ call' = [call EXCEPT !.op = op, !.async = async, !.withFileTypes = opt]
  /\ result' = res
  /\ self' = afterToString(self)
  /\ pc' = "listed"
  /\ UNCHANGED <<parser, other, segs, walkUp, listing, current, heapVars>>

CallIterdirSync ==
  /\ pc = "ready"
  /\ \E opt \in FileTypeOptions :
       Deliver("iterdirSync", FALSE, opt, iterdirSync(self, call.host, disk, wantsFileTypes(opt)))

CallIterdir ==
  /\ pc = "ready"
  /\ \E opt \in FileTypeOptions :
       Deliver("iterdir", TRUE, opt, iterdir(self, call.host, disk, wantsFileTypes(opt)))

CallIterdirStreamSync ==
  /\ pc = "ready"
  /\ \E opt \in FileTypeOptions :
       Deliver("iterdirStreamSync", FALSE, opt,
               iterdirStreamSync(self, call.host, disk, wantsFileTypes(opt)))

CallIterdirStream ==
  /\ pc = "ready"
  /\ \E opt \in FileTypeOptions :
       Deliver("iterdirStream", TRUE, opt,
               iterdirStream(self, call.host, disk, wantsFileTypes(opt)))

CallGlobSync ==
  /\ pc = "ready"
  /\ \E pattern \in GlobPatterns :
       Deliver("globSync", FALSE, None, globSync(self, call.host, disk, pattern))

CallGlob ==
  /\ pc = "ready"
  /\ \E pattern \in GlobPatterns :
       Deliver("glob", TRUE, None, glob(self, call.host, disk, pattern))

CallRglobSync ==
  /\ pc = "ready"
  /\ \E pattern \in GlobPatterns :
       Deliver("rglobSync", FALSE, None, rglobSync(self, call.host, disk, pattern))

CallRglob ==
  /\ pc = "ready"
  /\ \E pattern \in GlobPatterns :
       Deliver("rglob", TRUE, None, rglob(self, call.host, disk, pattern))

HostNext ==
  \/ HostConstruct
  \/ CallIterdirSync
  \/ CallIterdir
  \/ CallIterdirStreamSync
  \/ CallIterdirStream
  \/ CallGlobSync
  \/ CallGlob
  \/ CallRglobSync
  \/ CallRglob

SpecHost == RelInit /\ [][HostNext]_vars

GlobCalls == {"globSync", "glob", "rglobSync", "rglob"}
IterdirCalls == {"iterdirSync", "iterdir", "iterdirStreamSync", "iterdirStream"}

\* the children of self as new paths, one per entry of the directory
ChildrenOfSelf ==
  [i \in 1..Len(disk.names) |->
     newPath(parser, <<IF toString(self) = <<DOT>> THEN disk.names[i]
                       ELSE toString(self) \o <<sepOf(parser)>> \o disk.names[i]>>)]

\* C23: without fs.globSync the four glob calls fail with
\* UnsupportedOperation; without Dirent support the four iterdir calls with
\* withFileTypes: true fail with UnsupportedOperation before any directory
\* is read, while without withFileTypes they still return the children of
\* an existing directory as paths; such a failure is never another error
\* and never comes with a partial result.
C23_Unsupported ==
  pc = "listed" =>
    /\ (call.op \in GlobCalls /\ ~ call.host.globSync) => result = Unsupported
    /\ (call.op \in IterdirCalls /\ ~ call.host.Dirent) =>
         IF call.withFileTypes = Some(TRUE)
           THEN result = Unsupported
           ELSE disk.kind = "dir" => result = Listed("paths", ChildrenOfSelf, 1)

\* a stream asked for file types on a host without Dirent fails although
\* the host could open the directory
C23_Witness ==
  /\ pc = "listed"
  /\ call.op = "iterdirStreamSync"
  /\ call.withFileTypes = Some(TRUE)
  /\ ~ call.host.Dirent
  /\ call.host.opendirSync
  /\ disk.kind = "dir"
  /\ Len(disk.names) > 0
  /\ result = Unsupported

\* the children listed as paths on a host without Dirent
C23_WitnessChildren ==
  /\ pc = "listed"
  /\ call.op = "iterdir"
  /\ ~ call.host.Dirent
  /\ call.withFileTypes = None
  /\ result.kind = "paths"
  /\ Len(result.items) = 2

\* rglob rejected on a host without fs.globSync
C23_WitnessGlob ==
  /\ pc = "listed"
  /\ call.op = "rglob"
  /\ ~ call.host.globSync
  /\ result = Unsupported

----------------------------------------------------------------------------
(* SpecSameFile: ensureDifferentFilesSync(source, target). An operand is    *)
(* what the function can learn of it: String(operand), the id its           *)
(* info._file_id_sync() returns (none without such a method), and what      *)
(* fs.statSync(String(operand)) returns (none when it throws).              *)

FileTexts == {<<"a">>, <<"b">>}
FileIds == {None, Some(1), Some(2)}
FileStats == {None} \cup {Some([dev |-> d, ino |-> i]) : d \in {1, 2}, i \in {1, 2}}
Operands == [text : FileTexts, fileId : FileIds, stat : FileStats]

\* new ErrnoError("Source and target are the same file", "EINVAL", ...)
SameFileError == Thrown("EINVAL", <<"Source and target are the same file">>)

\* the body of the try block: what it throws or returns
differentFilesTry(source, target) ==
  IF IsSome(source.fileId) /\ IsSome(target.fileId)
    THEN IF source.fileId[1] = target.fileId[1] THEN SameFileError ELSE ReturnedVoid
  ELSE IF ~ IsSome(source.stat) THEN ErrnoException("ENOENT", "stat")
  ELSE IF ~ IsSome(target.stat) THEN ErrnoException("ENOENT", "stat")
  ELSE IF source.stat[1].dev = target.stat[1].dev /\ source.stat[1].ino = target.stat[1].ino
    THEN SameFileError
  ELSE ReturnedVoid

\* ensureDifferentFilesSync(source, target): whatever the try block throws
\* is caught, and the catch block throws only for equal strings
ensureDifferentFilesSync(source, target) ==
  IF differentFilesTry(source, target) = ReturnedVoid THEN ReturnedVoid
  ELSE IF source.text = target.text THEN SameFileError
  ELSE ReturnedVoid

\* two operands; one path string names one file
SameFileConstruct ==
  /\ pc = "new"
  /\ \E s \in Operands, t \in Operands :
       /\ s.text = t.text => s.stat = t.stat
       /\ self' = s
       /\ other' = t
  /\ pc' = "ready"
  /\ UNCHANGED <<parser, segs, walkUp, result, listing, current, call, heapVars>>

CallEnsureDifferentFilesSync ==
  /\ pc = "ready"
  /\ result' = ensureDifferentFilesSync(self, other)
  /\ call' = [op |-> "ensureDifferentFilesSync", inner |-> differentFilesTry(self, other)]
  /\ pc' = "checked"
  /\ UNCHANGED <<parser, self, other, segs, walkUp, listing, current, heapVars>>

SameFileNext == SameFileConstruct \/ CallEnsureDifferentFilesSync

SpecSameFile == RelInit /\ [][SameFileNext]_vars

\* source and target are the same file: equal ids from their info objects,
\* or equal device and inode from stat
SameFile ==
  IF IsSome(self.fileId) /\ IsSome(other.fileId)
    THEN self.fileId[1] = other.fileId[1]
    ELSE IsSome(self.stat) /\ IsSome(other.stat) /\ self.stat[1] = other.stat[1]

\* C26: ensureDifferentFilesSync(source, target) raises EINVAL whenever
\* source and target are the same file, also when their path strings
\* differ, and returns normally whenever they are different files or one of
\* them cannot be stat'ed.
C26_SameFile ==
  pc = "checked" =>
    /\ SameFile => result = SameFileError
    /\ ~ SameFile => result = ReturnedVoid

\* what the function does: it raises EINVAL exactly when the operands have
\* equal strings and the comparison found the same file or could not stat
SameFileByString ==
  pc = "checked" =>
    (result = SameFileError) <=>
      (self.text = other.text
       /\ \/ SameFile
          \/ ~ (IsSome(self.fileId) /\ IsSome(other.fileId))
             /\ ~ (IsSome(self.stat) /\ IsSome(other.stat)))

----------------------------------------------------------------------------
(* SpecInfo: one PathInfo instance queried several times while other tasks  *)
(* change the filesystem. self is the instance: [pathStr, statResult,       *)
(* lstatResult], a result being none while it is undefined.                 *)

MaxQueries == 3

InfoKinds == {"missing", "file", "dir", "symlinkToDir"}
InfoDisks == [kind : InfoKinds, ino : {1, 2}]

\* new PathInfo(p)
newPathInfo(p) == [pathStr |-> p, statResult |-> None, lstatResult |-> None]

\* the fs.Stats that fs.statSync / fs.lstatSync return for an existing path
statsOf(d, followSymlinks) ==
  [kind |-> IF d.kind = "symlinkToDir" THEN (IF followSymlinks THEN "dir" ELSE "symlink")
            ELSE d.kind,
   dev |-> 1, ino |-> d.ino]

\* what statInternalSync gave: the value returned (stats, or none for null)
\* or the error thrown, the instance afterwards, the system calls made
Statted(threw, st, info, n) == [threw |-> threw, st |-> st, info |-> info, syscalls |-> n]

\* the cached result of the mode
cachedOf(info, followSymlinks) ==
  IF followSymlinks THEN info.statResult ELSE info.lstatResult

\* the instance after the assignment to statResult or lstatResult
storeStat(info, followSymlinks, st) ==
  IF followSymlinks THEN [info EXCEPT !.statResult = Some(st)]
  ELSE [info EXCEPT !.lstatResult = Some(st)]

\* PathInfoBase.statInternalSync({followSymlinks, ignoreErrors}): a stat that
\* throws leaves the cached result undefined
statInternalSync(info, d, followSymlinks, ignoreErrors) ==
  IF IsSome(cachedOf(info, followSymlinks))
    THEN Statted(FALSE, cachedOf(info, followSymlinks), info, 0)
  ELSE IF d.kind = "missing"
    THEN Statted(~ ignoreErrors, None, info, 1)
  ELSE Statted(FALSE, Some(statsOf(d, followSymlinks)),
               storeStat(info, followSymlinks, statsOf(d, followSymlinks)), 1)

\* the answers of the queries, from what statInternal gave
FileIdOf(st) == [kind |-> "fileId", path |-> None, message |-> <<st.dev, st.ino>>]

answerOf(op, s) ==
  IF op = "exists" THEN Answer(IsSome(s.st))
  ELSE IF op = "isDir" THEN Answer(IsSome(s.st) /\ s.st[1].kind = "dir")
  ELSE IF op = "isFile" THEN Answer(IsSome(s.st) /\ s.st[1].kind = "file")
  ELSE IF op = "isSymlink" THEN Answer(IsSome(s.st) /\ s.st[1].kind = "symlink")
  ELSE IF s.threw THEN ErrnoException("ENOENT", "stat")
  ELSE FileIdOf(s.st[1])

\* the mode a query stats in, and whether it ignores errors
followsOf(op, followSymlinks) == op # "isSymlink" /\ followSymlinks
ignoresOf(op) == op # "fileId"

\* exists(f), isDir(f), isFile(f), isSymlink(), fileId(f) on the instance
queryInfo(info, d, op, followSymlinks) ==
  statInternalSync(info, d, followsOf(op, followSymlinks), ignoresOf(op))

InfoQueries == {"exists", "isDir", "isFile", "isSymlink", "fileId"}

\* the first system call of a mode: none made yet, or what it found
NoFirst == [stat |-> None, lstat |-> None]

modeOf(follows) == IF follows THEN "stat" ELSE "lstat"

InfoConstruct ==
  /\ pc = "new"
  /\ self' = newPathInfo(<<"a">>)
  /\ disk' \in InfoDisks
  /\ call' = [op |-> "new", followSymlinks |-> TRUE, queries |-> 0,
              syscalls |-> [stat |-> 0, lstat |-> 0], first |-> NoFirst,
              made |-> 0]
  /\ pc' = "info"
  /\ UNCHANGED <<parser, other, segs, walkUp, result, listing, current, heap, held, pending>>

\* another task, or another process, changes what the path holds
InfoOtherTask ==
  /\ pc = "info"
  /\ call.queries > 0
  /\ disk' \in InfoDisks \ {disk}
  /\ UNCHANGED <<pc, parser, self, other, segs, walkUp, result, listing, current, call,
                 heap, held, pending>>

\* the bookkeeping of a query that made n system calls in mode m and found d
counted(c, op, followSymlinks, m, n, d) ==
  [op |-> op, followSymlinks |-> followSymlinks, queries |-> c.queries + 1,
   syscalls |-> [c.syscalls EXCEPT ![m] = @ + n],
   first |-> IF n > 0 /\ ~ IsSome(c.first[m]) THEN [c.first EXCEPT ![m] = Some(d)] ELSE c.first,
   made |-> n]

\* await info.exists(f) and the other queries
QueryInfo ==
  /\ pc = "info"
  /\ call.queries < MaxQueries
  /\ \E op \in InfoQueries, f \in BOOLEAN :
       /\ result' = answerOf(op, queryInfo(self, disk, op, f))
       /\ self' = queryInfo(self, disk, op, f).info
       /\ call' = counted(call, op, f, modeOf(followsOf(op, f)),
                          queryInfo(self, disk, op, f).syscalls, disk)
  /\ UNCHANGED <<pc, parser, other, segs, walkUp, listing, current, heapVars>>

InfoNext == InfoConstruct \/ InfoOtherTask \/ QueryInfo

SpecInfo == RelInit /\ [][InfoNext]_vars

\* the answer the last query would have got from a fresh instance on disk d
AnswerOn(d) ==
  answerOf(call.op, statInternalSync(newPathInfo(self.pathStr), d,
                                     followsOf(call.op, call.followSymlinks),
                                     ignoresOf(call.op)))

\* the mode of the last query
LastMode == modeOf(followsOf(call.op, call.followSymlinks))

\* C27: for one PathInfo instance the filesystem is consulted at most once
\* per mode, and every later query of that mode answers from what the first
\* one found, without a new system call, even if the filesystem has changed
\* and also when the first query found the path missing.
C27_StatOnce ==
  (pc = "info" /\ call.queries > 0) =>
    /\ call.syscalls.stat <= 1
    /\ call.syscalls.lstat <= 1
    /\ result = AnswerOn(call.first[LastMode][1])

\* what the instance does keep: once a query of a mode has found the path,
\* the later queries of that mode make no system call and answer from what
\* it found
InfoCachesFound ==
  (/\ pc = "info"
   /\ call.queries > 0
   /\ IsSome(call.first[LastMode])
   /\ IsSome(cachedOf(self, LastMode = "stat")))
    => result = answerOf(call.op,
                         Statted(FALSE, cachedOf(self, LastMode = "stat"), self, 0))

====
